---- MODULE Spec2Model ----
(***************************************************************************)
(* Package waypoint timing, radio channel allocation and flight generation *)
(* of gen/aircraft.py.                                                     *)
(*                                                                         *)
(* Optional[T] values are tuples: None is <<>> and a present value v is    *)
(* <<v>>.  Python floats are modelled as exact rationals <<num, den>>.     *)
(***************************************************************************)
EXTENDS Integers, Sequences, FiniteSets, TLC

VARIABLES
    pkg,        \* the Package handed to PackageWaypointTiming.for_package
    timing,     \* Optional[PackageWaypointTiming] returned by for_package
    ret,        \* record of the last call made on the timing API
    exc,        \* name of the exception that left the last call, "" if none
    fdata,      \* the FlightData whose radio channels are assigned
    air_support,\* AirSupport: the AWACS and tanker frequencies of the mission
    allocator,  \* the RadioChannelAllocator of the flight's aircraft type
    ato,        \* AirTaskingOrder.packages handed to generate_flights
    dynamic_runways, \* the carrier runways handed to generate_flights
    game,       \* self.game: the settings and the theater's control points
    m,          \* self.m: the mission being generated
    flights,    \* self.flights: the FlightData of the generated flights
    pc,         \* where generate_flights stands
    cur         \* the package and the flight its loops stand at

vars == <<pkg, timing, ret, exc, fdata, air_support, allocator,
          ato, dynamic_runways, game, m, flights, pc, cur>>

\* The state of the generator, and the state of the timing and radio calls.
gen_vars == <<ato, dynamic_runways, game, m, flights, pc, cur>>
api_vars == <<pkg, ret, fdata, air_support, allocator>>

None == <<>>
Some(v) == <<v>>
IsNone(o) == o = <<>>
Get(o) == o[1]

-----------------------------------------------------------------------------
(* Exact rational arithmetic standing for Python float arithmetic.         *)

Abs(n) == IF n < 0 THEN -n ELSE n

RECURSIVE GCD(_, _)
GCD(a, b) == IF b = 0 THEN Abs(a) ELSE GCD(b, a % b)

\* n/d in lowest terms, d > 0.
Rat(n, d) ==
    LET g == GCD(n, d)
    IN  IF d < 0 THEN <<-(n \div g), -(d \div g)>> ELSE <<n \div g, d \div g>>

\* p * q, cancelling across before multiplying.
RMul(p, q) ==
    LET g1 == GCD(p[1], q[2])
        g2 == GCD(q[1], p[2])
    IN  Rat((p[1] \div g1) * (q[1] \div g2), (p[2] \div g2) * (q[2] \div g1))

RDiv(p, q) == RMul(p, Rat(q[2], q[1]))

FromInt(n) == <<n, 1>>

\* Python int(float): truncation toward zero.
int(r) == IF r[1] >= 0 THEN r[1] \div r[2] ELSE -((-r[1]) \div r[2])

\* Python round(float): nearest integer (ties are not reached by the legs used here).
round(r) ==
    IF r[1] >= 0 THEN (2 * r[1] + r[2]) \div (2 * r[2])
    ELSE -((2 * (-r[1]) + r[2]) \div (2 * r[2]))

\* Largest r with r * r <= n (Newton's iteration on integers).
RECURSIVE ISqrtIter(_, _)
ISqrtIter(n, x) ==
    LET y == (x + n \div x) \div 2
    IN  IF y >= x THEN x ELSE ISqrtIter(n, y)

ISqrt(n) == IF n = 0 THEN 0 ELSE ISqrtIter(n, n)

-----------------------------------------------------------------------------
(* Points and distances.                                                   *)

Point(x, y) == [x |-> x, y |-> y]

\* dcs.mapping.Point.distance_to_point: sqrt(dx^2 + dy^2), in meters.  The
\* common factor of dx and dy is taken out of the root; every pair of points
\* used below has a whole-meter distance, so the root is exact.
distance_to_point(a, b) ==
    LET dx == Abs(a.x - b.x)
        dy == Abs(a.y - b.y)
        g  == GCD(dx, dy)
    IN  IF g = 0 THEN 0
        ELSE g * ISqrt((dx \div g) * (dx \div g) + (dy \div g) * (dy \div g))

METERS_PER_NM == 1852

\* game.utils.meter_to_nm: meters to nautical miles.
meter_to_nm(value_in_meter) == Rat(value_in_meter, METERS_PER_NM)

-----------------------------------------------------------------------------
(* Flight and waypoint vocabularies.                                       *)

FlightType ==
    {"CAP", "BARCAP", "TARCAP", "INTERCEPTION", "CAS", "BAI", "SEAD", "DEAD",
     "STRIKE", "ANTISHIP", "ESCORT", "EWAR"}

FlightWaypointType ==
    {"TAKEOFF", "NAV", "PATROL", "PATROL_TRACK", "INGRESS_STRIKE",
     "INGRESS_SEAD", "INGRESS_CAS", "CAS", "EGRESS", "LANDING_POINT",
     "TARGET_POINT", "TARGET_GROUP_LOC", "TARGET_SHIP", "CUSTOM", "JOIN",
     "SPLIT", "LOITER"}

CAP_DURATION == 30

-----------------------------------------------------------------------------
(* PackageWaypointTiming.                                                  *)

\* A call's outcome: the exception that left it ("" if none) and its value.
Returned(v) == [exc |-> "", value |-> Some(v)]
Raised(e) == [exc |-> e, value |-> None]

RECURSIVE min(_)
min(s) ==
    IF Len(s) = 1 THEN s[1]
    ELSE LET rest == min(Tail(s)) IN IF s[1] <= rest THEN s[1] ELSE rest

\* travel_time with round() in place of int().
travel_time_rounded(a, b, speed) ==
    LET error_factor == Rat(11, 10)
        distance == meter_to_nm(distance_to_point(a, b))
        hours == RDiv(distance, FromInt(speed))
        seconds == RMul(hours, FromInt(3600))
    IN  round(RMul(seconds, error_factor))

\* travel_time without the error factor.
travel_time_no_margin(a, b, speed) ==
    LET distance == meter_to_nm(distance_to_point(a, b))
        hours == RDiv(distance, FromInt(speed))
        seconds == RMul(hours, FromInt(3600))
    IN  int(seconds)

travel_time(a, b, speed) ==
    LET error_factor == Rat(11, 10)
        distance == meter_to_nm(distance_to_point(a, b))
        hours == RDiv(distance, FromInt(speed))
        seconds == RMul(hours, FromInt(3600))
    IN  int(RMul(seconds, error_factor))

flight_ground_speed(flight) == 400

\* package_ground_speed with the speed of any flight for a package
\* without flights.
package_ground_speed_or_default(package) ==
    LET speeds == [i \in 1..Len(package.flights) |->
                      flight_ground_speed(package.flights[i])]
    IN  IF speeds = <<>> THEN Returned(400) ELSE Returned(min(speeds))

\* min() of an empty list raises ValueError.
package_ground_speed(package) ==
    LET speeds == [i \in 1..Len(package.flights) |->
                      flight_ground_speed(package.flights[i])]
    IN  IF speeds = <<>> THEN Raised("ValueError") ELSE Returned(min(speeds))

\* for_package with the join time taken back from the time-over-target
\* instead of from the ingress time.
for_package_join_from_tot(package) ==
    IF IsNone(package.time_over_target) THEN Raised("AssertionError")
    ELSE IF IsNone(package.waypoints) THEN Raised("AssertionError")
    ELSE LET speed == package_ground_speed(package) IN
    IF speed.exc # "" THEN Raised(speed.exc)
    ELSE
    LET group_ground_speed == Get(speed.value)
        time_over_target == Get(package.time_over_target)
        waypoints == Get(package.waypoints)
        ingress == time_over_target - travel_time(
            waypoints.ingress, package.target.position, group_ground_speed)
        join == time_over_target - travel_time(
            waypoints.join, waypoints.ingress, group_ground_speed)
        egress == time_over_target + travel_time(
            package.target.position, waypoints.egress, group_ground_speed)
        split == egress + travel_time(
            waypoints.egress, waypoints.split, group_ground_speed)
    IN  Returned([package |-> package, join |-> join, ingress |-> ingress,
                  egress |-> egress, split |-> split])

for_package(package) ==
    IF IsNone(package.time_over_target) THEN Raised("AssertionError")
    ELSE IF IsNone(package.waypoints) THEN Raised("AssertionError")
    ELSE LET speed == package_ground_speed(package) IN
    IF speed.exc # "" THEN Raised(speed.exc)
    ELSE
    LET group_ground_speed == Get(speed.value)
        time_over_target == Get(package.time_over_target)
        waypoints == Get(package.waypoints)
        ingress == time_over_target - travel_time(
            waypoints.ingress, package.target.position, group_ground_speed)
        join == ingress - travel_time(
            waypoints.join, waypoints.ingress, group_ground_speed)
        egress == time_over_target + travel_time(
            package.target.position, waypoints.egress, group_ground_speed)
        split == egress + travel_time(
            waypoints.egress, waypoints.split, group_ground_speed)
    IN  Returned([package |-> package, join |-> join, ingress |-> ingress,
                  egress |-> egress, split |-> split])

\* PackageWaypointTiming.target (the assert holds for every timing that
\* for_package returned while the package is unchanged).
target(self) == Get(self.package.time_over_target)

\* race_track_start that takes the split time for the ingress time.
race_track_start_at_split(self) ==
    IF self.package.primary_task \in {"BARCAP", "CAP"} THEN None
    ELSE Some(self.split)

race_track_start(self) ==
    LET cap_types == {"BARCAP", "CAP"}
    IN  IF self.package.primary_task \in cap_types THEN None
        ELSE Some(self.ingress)

\* race_track_end with CAP_DURATION taken as seconds.
race_track_end_minutes(self) ==
    LET cap_types == {"BARCAP", "CAP"}
    IN  IF self.package.primary_task \in cap_types
        THEN target(self) + CAP_DURATION
        ELSE self.egress

race_track_end(self) ==
    LET cap_types == {"BARCAP", "CAP"}
    IN  IF self.package.primary_task \in cap_types
        THEN target(self) + CAP_DURATION * 60
        ELSE self.egress

push_time(self, flight, hold_point) ==
    self.join - travel_time(hold_point, Get(self.package.waypoints).join,
                            flight_ground_speed(flight))

\* tot_for_waypoint with INGRESS_CAS missing from ingress_types.
tot_for_waypoint_no_cas(self, waypoint) ==
    LET target_types == {"TARGET_GROUP_LOC", "TARGET_POINT", "TARGET_SHIP"}
        ingress_types == {"INGRESS_SEAD", "INGRESS_STRIKE"}
    IN  IF waypoint.waypoint_type = "JOIN" THEN Some(self.join)
        ELSE IF waypoint.waypoint_type \in ingress_types THEN Some(self.ingress)
        ELSE IF waypoint.waypoint_type \in target_types THEN Some(target(self))
        ELSE IF waypoint.waypoint_type = "EGRESS" THEN Some(self.egress)
        ELSE IF waypoint.waypoint_type = "SPLIT" THEN Some(self.split)
        ELSE IF waypoint.waypoint_type = "PATROL_TRACK" THEN race_track_start(self)
        ELSE None

tot_for_waypoint(self, waypoint) ==
    LET target_types == {"TARGET_GROUP_LOC", "TARGET_POINT", "TARGET_SHIP"}
        ingress_types == {"INGRESS_CAS", "INGRESS_SEAD", "INGRESS_STRIKE"}
    IN  IF waypoint.waypoint_type = "JOIN" THEN Some(self.join)
        ELSE IF waypoint.waypoint_type \in ingress_types THEN Some(self.ingress)
        ELSE IF waypoint.waypoint_type \in target_types THEN Some(target(self))
        ELSE IF waypoint.waypoint_type = "EGRESS" THEN Some(self.egress)
        ELSE IF waypoint.waypoint_type = "SPLIT" THEN Some(self.split)
        ELSE IF waypoint.waypoint_type = "PATROL_TRACK" THEN race_track_start(self)
        ELSE None

depart_time_for_waypoint(self, waypoint, flight) ==
    IF waypoint.waypoint_type = "LOITER"
    THEN Some(push_time(self, flight, Point(waypoint.x, waypoint.y)))
    ELSE IF waypoint.waypoint_type = "PATROL" THEN Some(race_track_end(self))
    ELSE None

-----------------------------------------------------------------------------
(* FlightData and the radio channel allocators.                            *)

RadioIds == {1, 2}

RunwayData(airfield_name, atc) == [airfield_name |-> airfield_name, atc |-> atc]

\* A unit of a flying group: its type, whether a player or client flies it,
\* the preset channels each of its radios has, and the presets written.
FlyingUnit(unit_type, human, channels) ==
    [unit_type |-> unit_type, human |-> human,
     radio_channels |-> [r \in RadioIds |-> channels], presets |-> <<>>]

\* FlightData.__init__.  calls is the history of the assign_channel calls
\* made on the flight, kept beside the fields of the source.
NewFlightData(flight_type, units, size, friendly, departure_delay, departure, arrival, divert, waypoints, intra_flight_channel, targetPoint) ==
    [flight_type |-> flight_type, units |-> units, size |-> size,
     friendly |-> friendly, departure_delay |-> departure_delay,
     departure |-> departure, arrival |-> arrival, divert |-> divert,
     waypoints |-> waypoints, intra_flight_channel |-> intra_flight_channel,
     frequency_to_channel_map |-> <<>>, targetPoint |-> targetPoint,
     calls |-> <<>>]

ChannelAssignment(radio_id, channel) ==
    [radio_id |-> radio_id, channel |-> channel]

\* FlightData.client_units
client_units(flight) == SelectSeq(flight.units, LAMBDA u : u.human)

\* FlightData.num_radio_channels: read from the first client unit, so a
\* flight without client units raises IndexError.
num_radio_channels(flight, radio_id) ==
    IF client_units(flight) = <<>> THEN Raised("IndexError")
    ELSE Returned(client_units(flight)[1].radio_channels[radio_id])

\* FlightData.channel_for
channel_for(flight, frequency) ==
    IF frequency \in DOMAIN flight.frequency_to_channel_map
    THEN Some(flight.frequency_to_channel_map[frequency])
    ELSE None

\* unit.set_radio_channel_preset on every client unit.
set_presets(units, radio_id, channel_id, frequency) ==
    [i \in 1..Len(units) |->
        IF units[i].human
        THEN [units[i] EXCEPT !.presets =
                 [k \in DOMAIN @ \cup {<<radio_id, channel_id>>} |->
                     IF k = <<radio_id, channel_id>> THEN frequency ELSE @[k]]]
        ELSE units[i]]

\* FlightData.assign_channel with the map entry overwritten by a later call.
assign_channel_last_wins(flight, radio_id, channel_id, frequency) ==
    [flight EXCEPT
        !.units = set_presets(@, radio_id, channel_id, frequency),
        !.calls = Append(@, <<radio_id, channel_id, frequency>>),
        !.frequency_to_channel_map =
            [f \in DOMAIN @ \cup {frequency} |->
                IF f = frequency THEN ChannelAssignment(radio_id, channel_id)
                ELSE @[f]]]

\* FlightData.assign_channel
assign_channel(flight, radio_id, channel_id, frequency) ==
    [flight EXCEPT
        !.units = set_presets(@, radio_id, channel_id, frequency),
        !.calls = Append(@, <<radio_id, channel_id, frequency>>),
        !.frequency_to_channel_map =
            IF frequency \in DOMAIN @ THEN @
            ELSE [f \in DOMAIN @ \cup {frequency} |->
                     IF f = frequency
                     THEN ChannelAssignment(radio_id, channel_id)
                     ELSE @[f]]]

\* An allocator's outcome: the flight as it leaves it, and the exception.
Allocated(flight, e) == [flight |-> flight, exc |-> e]

\* The same with a channel_alloc that never ends.
RECURSIVE assign_next_unbounded(_, _, _, _, _)
assign_next_unbounded(flight, radio_id, channel, last_channel, freqs) ==
    IF freqs = <<>> THEN [flight |-> flight, channel |-> channel, exc |-> ""]
    ELSE assign_next_unbounded(
             assign_channel(flight, radio_id, channel, Head(freqs)),
             radio_id, channel + 1, last_channel, Tail(freqs))

\* flight.assign_channel(radio_id, next(channel_alloc), f) for each f of
\* freqs in turn, channel_alloc standing at channel; next() raises
\* StopIteration once channel has passed last_channel.
RECURSIVE assign_next(_, _, _, _, _)
assign_next(flight, radio_id, channel, last_channel, freqs) ==
    IF freqs = <<>> THEN [flight |-> flight, channel |-> channel, exc |-> ""]
    ELSE IF channel > last_channel
    THEN [flight |-> flight, channel |-> channel, exc |-> "StopIteration"]
    ELSE assign_next(assign_channel(flight, radio_id, channel, Head(freqs)),
                     radio_id, channel + 1, last_channel, Tail(freqs))

\* A present Optional as a one-element list, None as the empty list.
AsList(o) == o

\* CommonRadioChannelAllocator: first_channel always 1.
common_first_channel_one(self) == 1

\* CommonRadioChannelAllocator: the first inter-flight channel.
common_first_channel(self) ==
    IF self.intra_flight_radio_index = self.inter_flight_radio_index
    THEN 2 ELSE 1

\* CommonRadioChannelAllocator: the intra-flight channel is left unset when
\* both radios share their presets.
common_assign_intra_unshared(self, flight) ==
    IF ~IsNone(self.intra_flight_radio_index)
       /\ self.intra_flight_radio_index # self.inter_flight_radio_index
    THEN assign_channel(flight, Get(self.intra_flight_radio_index), 1,
                        flight.intra_flight_channel)
    ELSE flight

\* CommonRadioChannelAllocator: the intra-flight channel.
common_assign_intra(self, flight) ==
    IF ~IsNone(self.intra_flight_radio_index)
    THEN assign_channel(flight, Get(self.intra_flight_radio_index), 1,
                        flight.intra_flight_channel)
    ELSE flight

\* CommonRadioChannelAllocator.assign_channels_for_flight with the arrival
\* ATC allocated before the AWACS.
common_assign_arrival_first(self, flight, support) ==
    LET f1 == common_assign_intra(self, flight)
    IN  IF IsNone(self.inter_flight_radio_index) THEN Allocated(f1, "")
        ELSE
        LET radio_id == Get(self.inter_flight_radio_index)
            first_channel == common_first_channel(self)
            last == num_radio_channels(f1, radio_id)
        IN  IF last.exc # "" THEN Allocated(f1, last.exc)
            ELSE
            LET last_channel == Get(last.value)
                unguarded ==
                    AsList(f1.departure.atc)
                    \o (IF f1.arrival # f1.departure
                        THEN AsList(f1.arrival.atc) ELSE <<>>)
                    \o support.awacs
                guarded ==
                    support.tankers
                    \o (IF ~IsNone(f1.divert)
                        THEN AsList(Get(f1.divert).atc) ELSE <<>>)
                a == assign_next(f1, radio_id, first_channel, last_channel,
                                 unguarded)
            IN  IF a.exc # "" THEN Allocated(a.flight, a.exc)
                ELSE Allocated(assign_next(a.flight, radio_id, a.channel,
                                           last_channel, guarded).flight, "")

\* CommonRadioChannelAllocator.assign_channels_for_flight
common_assign_channels_for_flight(self, flight, support) ==
    LET f1 == common_assign_intra(self, flight)
    IN  IF IsNone(self.inter_flight_radio_index) THEN Allocated(f1, "")
        ELSE
        LET radio_id == Get(self.inter_flight_radio_index)
            first_channel == common_first_channel(self)
            last == num_radio_channels(f1, radio_id)
        IN  IF last.exc # "" THEN Allocated(f1, last.exc)
            ELSE
            LET last_channel == Get(last.value)
                \* departure ATC, every AWACS, arrival ATC: outside the try.
                unguarded ==
                    AsList(f1.departure.atc) \o support.awacs
                    \o (IF f1.arrival # f1.departure
                        THEN AsList(f1.arrival.atc) ELSE <<>>)
                \* every tanker, divert ATC: StopIteration is swallowed.
                guarded ==
                    support.tankers
                    \o (IF ~IsNone(f1.divert)
                        THEN AsList(Get(f1.divert).atc) ELSE <<>>)
                a == assign_next(f1, radio_id, first_channel, last_channel,
                                 unguarded)
            IN  IF a.exc # "" THEN Allocated(a.flight, a.exc)
                ELSE Allocated(assign_next(a.flight, radio_id, a.channel,
                                           last_channel, guarded).flight, "")

\* WarthogRadioChannelAllocator.assign_channels_for_flight
warthog_assign_channels_for_flight(self, flight, support) ==
    Allocated(flight, "")

\* ViggenRadioChannelAllocator.assign_channels_for_flight
viggen_assign_channels_for_flight(self, flight, support) ==
    LET radio_id == 1
        f1 == assign_channel(flight, radio_id, 1, flight.intra_flight_channel)
        f2 == IF ~IsNone(f1.departure.atc)
              THEN assign_channel(f1, radio_id, 4, Get(f1.departure.atc))
              ELSE f1
        f3 == IF ~IsNone(f2.arrival.atc)
              THEN assign_channel(f2, radio_id, 5, Get(f2.arrival.atc))
              ELSE f2
    IN  Allocated(f3, "")

\* SCR522RadioChannelAllocator.assign_channels_for_flight
scr522_assign_channels_for_flight(self, flight, support) ==
    LET radio_id == 1
        f1 == assign_channel(flight, radio_id, 1, flight.intra_flight_channel)
        f2 == IF ~IsNone(f1.departure.atc)
              THEN assign_channel(f1, radio_id, 2, Get(f1.departure.atc))
              ELSE f1
        f3 == IF ~IsNone(f2.arrival.atc)
              THEN assign_channel(f2, radio_id, 3, Get(f2.arrival.atc))
              ELSE f2
    IN  Allocated(f3, "")

-----------------------------------------------------------------------------
(* Flights, flight waypoints and the mission waypoints built from them.    *)

FlightWaypoint(waypoint_type, x, y, alt) ==
    [waypoint_type |-> waypoint_type, x |-> x, y |-> y, alt |-> alt,
     alt_type |-> "BARO", name |-> waypoint_type, tot |-> None,
     only_for_player |-> FALSE, targets |-> <<>>, targetGroup |-> None]

\* Flight.points: the flight plan without its first waypoint.
points(flight) == Tail(flight.flight_plan.waypoints)

\* FlyingGroup.add_waypoint: a turning point, no task, arrival time free.
MovingPoint(position, alt) ==
    [position |-> position, alt |-> alt, alt_type |-> "BARO", name |-> "",
     type |-> "Turning Point", action |-> "Turning Point", speed |-> 600,
     ETA |-> 0, ETA_locked |-> FALSE, speed_locked |-> TRUE, tasks |-> <<>>]

\* A waypoint builder: the flight waypoint it builds, the group it adds the
\* mission waypoint to, the flight, the package timing and the mission.
PydcsWaypointBuilder(waypoint, group, flight, timing_, mission) ==
    [waypoint |-> waypoint, group |-> group, flight |-> flight,
     timing |-> timing_, mission |-> mission]

\* The mission waypoint a builder has added: the last point of its group.
Built(self) == self.group.points[Len(self.group.points)]

\* waypoint.add_task / waypoint.tasks.append on the added mission waypoint.
add_task(self, task) ==
    [self EXCEPT !.group.points[Len(self.group.points)].tasks = Append(@, task)]

\* PydcsWaypointBuilder.build
PydcsWaypointBuilder_build(self) ==
    [self EXCEPT !.group.points =
        Append(@, [MovingPoint(Point(self.waypoint.x, self.waypoint.y),
                               self.waypoint.alt)
                   EXCEPT !.alt_type = self.waypoint.alt_type,
                          !.name = self.waypoint.name])]

\* set_waypoint_tot that sets the arrival time of the mission waypoint
\* only.
set_waypoint_tot_eta_only(self, tot) ==
    [self EXCEPT !.group.points[Len(self.group.points)].ETA = tot]

\* PydcsWaypointBuilder.set_waypoint_tot
set_waypoint_tot(self, tot) ==
    [self EXCEPT
        !.waypoint.tot = Some(tot),
        !.group.points[Len(self.group.points)] =
            [@ EXCEPT !.ETA = tot, !.ETA_locked = TRUE, !.speed_locked = FALSE]]

\* ControlledTask(OrbitAction(altitude, pattern)) with stop_after_time(time).
OrbitUntil(altitude, pattern, time) ==
    [id |-> "ControlledTask",
     task |-> [id |-> "Orbit", altitude |-> altitude, pattern |-> pattern],
     stop_after_time |-> time]

\* HoldPointBuilder.build with the loiter stopped at the join time.
HoldPointBuilder_build_at_join(self) ==
    LET b == PydcsWaypointBuilder_build(self)
    IN  add_task(b, OrbitUntil(Built(b).alt, "Circle", self.timing.join))

\* HoldPointBuilder.build
HoldPointBuilder_build(self) ==
    LET b == PydcsWaypointBuilder_build(self)
        loiter == OrbitUntil(Built(b).alt, "Circle",
                     push_time(self.timing, self.flight, Built(b).position))
    IN  add_task(b, loiter)

\* EgressPointBuilder.build
EgressPointBuilder_build(self) ==
    set_waypoint_tot(PydcsWaypointBuilder_build(self), self.timing.egress)

\* IngressBuilder.build
IngressBuilder_build(self) ==
    set_waypoint_tot(PydcsWaypointBuilder_build(self), self.timing.ingress)

\* The navigation target points an airframe takes for the targets of an
\* ingress waypoint: four on the JF-17, one on the F-14B, nine on the AJS37.
RECURSIVE add_nav_target_points(_, _, _)
add_nav_target_points(group, targets, i) ==
    IF i >= Len(targets) THEN group
    ELSE
    LET t == targets[i + 1]
        unit_type == group.units[1].unit_type
        g1 == IF unit_type = "JF-17" /\ i < 4
              THEN [group EXCEPT !.nav_target_points =
                       Append(@, <<t.position, "PP", i + 1>>)]
              ELSE group
        g2 == IF unit_type = "F-14B" /\ i = 0
              THEN [g1 EXCEPT !.nav_target_points =
                       Append(@, <<t.position, "ST", 0>>)]
              ELSE g1
        g3 == IF unit_type = "AJS37" /\ i < 9
              THEN [g2 EXCEPT !.nav_target_points =
                       Append(@, <<t.position, "M", i + 1>>)]
              ELSE g2
    IN  add_nav_target_points(g3, targets, i + 1)

\* Mission.find_group: the mission group of that name, if any.
find_group(mission, name) ==
    IF name \in DOMAIN mission.named_groups
    THEN Some(mission.named_groups[name]) ELSE None

\* SeadIngressBuilder.build that leaves the waypoint as the default
\* builder makes it when the target group is not found.
SeadIngressBuilder_build_unstamped(self) ==
    LET b == IngressBuilder_build(self)
        target_group == self.waypoint.targetGroup
        tgroup == IF ~IsNone(target_group)
                     /\ Get(target_group).class = "TheaterGroundObject"
                  THEN find_group(self.mission,
                                  Get(target_group).group_identifier)
                  ELSE None
    IN  IF IsNone(tgroup) THEN PydcsWaypointBuilder_build(self)
        ELSE [add_task(b, [id |-> "AttackGroup", groupId |-> Get(tgroup).id,
                           expend |-> "All", attackQtyLimit |-> FALSE,
                           directionEnabled |-> FALSE,
                           altitudeEnabled |-> FALSE,
                           weaponType |-> 268402702, groupAttack |-> TRUE])
              EXCEPT !.group =
                  add_nav_target_points(@, self.waypoint.targets, 0)]

\* SeadIngressBuilder.build
SeadIngressBuilder_build(self) ==
    LET b == IngressBuilder_build(self)
        target_group == self.waypoint.targetGroup
        tgroup == IF ~IsNone(target_group)
                     /\ Get(target_group).class = "TheaterGroundObject"
                  THEN find_group(self.mission,
                                  Get(target_group).group_identifier)
                  ELSE None
        b1 == IF ~IsNone(tgroup)
              THEN add_task(b, [id |-> "AttackGroup", groupId |-> Get(tgroup).id,
                                expend |-> "All", attackQtyLimit |-> FALSE,
                                directionEnabled |-> FALSE,
                                altitudeEnabled |-> FALSE,
                                weaponType |-> 268402702, groupAttack |-> TRUE])
              ELSE b
    IN  [b1 EXCEPT !.group =
            add_nav_target_points(@, self.waypoint.targets, 0)]

RECURSIVE SumOf(_, _)
SumOf(targets, c) ==
    IF targets = <<>> THEN 0
    ELSE Head(targets).position[c] + SumOf(Tail(targets), c)

\* StrikeIngressBuilder.build_bombing
StrikeIngressBuilder_build_bombing(self) ==
    LET b == IngressBuilder_build(self)
        targets == self.waypoint.targets
    IN  IF targets = <<>> THEN b
        ELSE
        LET center == [x |-> Rat(SumOf(targets, "x"), Len(targets)),
                       y |-> Rat(SumOf(targets, "y"), Len(targets))]
        IN  add_task(b, [id |-> "Bombing", position |-> center,
                         expend |-> "All", attackQtyLimit |-> FALSE,
                         directionEnabled |-> FALSE, altitudeEnabled |-> FALSE,
                         weaponType |-> 2032, groupAttack |-> TRUE])

RECURSIVE add_bombing_tasks(_, _)
add_bombing_tasks(b, targets) ==
    IF targets = <<>> THEN b
    ELSE add_bombing_tasks(
             add_task(b, [id |-> "Bombing", position |-> Head(targets).position]),
             Tail(targets))

\* StrikeIngressBuilder.build_strike
StrikeIngressBuilder_build_strike(self) ==
    LET b == add_bombing_tasks(IngressBuilder_build(self), self.waypoint.targets)
    IN  [b EXCEPT !.group =
            add_nav_target_points(@, self.waypoint.targets, 0)]

\* StrikeIngressBuilder.build without the branch for the B-17G.
StrikeIngressBuilder_build_strike_always(self) ==
    StrikeIngressBuilder_build_strike(self)

\* StrikeIngressBuilder.build
StrikeIngressBuilder_build(self) ==
    IF self.group.units[1].unit_type = "B-17G"
    THEN StrikeIngressBuilder_build_bombing(self)
    ELSE StrikeIngressBuilder_build_strike(self)

\* JoinPointBuilder.build
JoinPointBuilder_build(self) ==
    set_waypoint_tot(PydcsWaypointBuilder_build(self), self.timing.join)

\* LandingPointBuilder.build
LandingPointBuilder_build(self) ==
    LET b == PydcsWaypointBuilder_build(self)
    IN  [b EXCEPT !.group.points[Len(b.group.points)] =
            [@ EXCEPT !.type = "Land", !.action = "Landing"]]

\* RaceTrackBuilder.build
RaceTrackBuilder_build(self) ==
    LET b == PydcsWaypointBuilder_build(self)
        start == race_track_start(self.timing)
        b1 == IF ~IsNone(start) THEN set_waypoint_tot(b, Get(start)) ELSE b
    IN  add_task(b1, OrbitUntil(Built(b).alt, "RaceTrack",
                                race_track_end(self.timing)))

\* SplitPointBuilder.build
SplitPointBuilder_build(self) ==
    set_waypoint_tot(PydcsWaypointBuilder_build(self), self.timing.split)

\* TargetPointBuilder.build
TargetPointBuilder_build(self) ==
    set_waypoint_tot(PydcsWaypointBuilder_build(self), target(self.timing))

\* for_waypoint(...).build() with PATROL in the table, built as a race
\* track.
for_waypoint_build_patrol_in_table(self) ==
    LET t == self.waypoint.waypoint_type
    IN  IF t = "EGRESS" THEN EgressPointBuilder_build(self)
        ELSE IF t = "INGRESS_SEAD" THEN SeadIngressBuilder_build(self)
        ELSE IF t = "INGRESS_STRIKE" THEN StrikeIngressBuilder_build(self)
        ELSE IF t = "JOIN" THEN JoinPointBuilder_build(self)
        ELSE IF t = "LANDING_POINT" THEN LandingPointBuilder_build(self)
        ELSE IF t = "LOITER" THEN HoldPointBuilder_build(self)
        ELSE IF t \in {"PATROL_TRACK", "PATROL"} THEN RaceTrackBuilder_build(self)
        ELSE IF t = "SPLIT" THEN SplitPointBuilder_build(self)
        ELSE IF t \in {"TARGET_GROUP_LOC", "TARGET_POINT", "TARGET_SHIP"}
        THEN TargetPointBuilder_build(self)
        ELSE PydcsWaypointBuilder_build(self)

\* PydcsWaypointBuilder.for_waypoint(...).build(): the builder class is
\* looked up by waypoint type, DefaultWaypointBuilder when there is none.
for_waypoint_build(self) ==
    LET t == self.waypoint.waypoint_type
    IN  IF t = "EGRESS" THEN EgressPointBuilder_build(self)
        ELSE IF t = "INGRESS_SEAD" THEN SeadIngressBuilder_build(self)
        ELSE IF t = "INGRESS_STRIKE" THEN StrikeIngressBuilder_build(self)
        ELSE IF t = "JOIN" THEN JoinPointBuilder_build(self)
        ELSE IF t = "LANDING_POINT" THEN LandingPointBuilder_build(self)
        ELSE IF t = "LOITER" THEN HoldPointBuilder_build(self)
        ELSE IF t = "PATROL_TRACK" THEN RaceTrackBuilder_build(self)
        ELSE IF t = "SPLIT" THEN SplitPointBuilder_build(self)
        ELSE IF t \in {"TARGET_GROUP_LOC", "TARGET_POINT", "TARGET_SHIP"}
        THEN TargetPointBuilder_build(self)
        ELSE PydcsWaypointBuilder_build(self)

-----------------------------------------------------------------------------
(* AircraftConflictGenerator: group creation.                              *)

WARM_START_HELI_AIRSPEED == 120
WARM_START_HELI_ALT == 500
WARM_START_ALTITUDE == 3000
WARM_START_AIRSPEED == 550

Helicopters == {"UH-1H", "Ka-50"}
CarrierTypes == {"AIRCRAFT_CARRIER_GROUP", "LHA_GROUP"}

\* AircraftConflictGenerator._start_type
start_type_setting(settings) == IF settings.cold_start THEN "Cold" ELSE "Warm"

\* Mission.flight_group*: a new flying group of count units of the flight's
\* type, with its first point, added to the mission.
add_flying_group(mission, flight, start_type, first_point) ==
    LET id == Len(mission.groups) + 1
        group ==
            [id |-> id,
             units |-> [i \in 1..flight.count |->
                           FlyingUnit(flight.unit_type, FALSE, 20)],
             start_type |-> start_type, points |-> <<first_point>>,
             task |-> "", late_activation |-> FALSE, uncontrolled |-> FALSE,
             trigger_actions |-> <<>>, nav_target_points |-> <<>>,
             frequency |-> None, loadout |-> None]
    IN  [mission EXCEPT !.groups = Append(@, group)]

\* The outcome of a group creation: the mission and the parking slots as it
\* leaves them, the exception if it raised, else the id of the new group.
Generated(mission, theater, e) ==
    [mission |-> mission, theater |-> theater, exc |-> e,
     group |-> Len(mission.groups)]

\* AircraftConflictGenerator._generate_inflight; offset is the random shift
\* of the spawn position.
generate_inflight(mission, theater, settings, flight, at, offset) ==
    IF ~(flight.count > 0) THEN Generated(mission, theater, "AssertionError")
    ELSE
    LET heli == flight.unit_type \in Helicopters
        alt == IF heli THEN WARM_START_HELI_ALT ELSE WARM_START_ALTITUDE
        speed == IF heli THEN WARM_START_HELI_AIRSPEED ELSE WARM_START_AIRSPEED
        pos == Point(at.x + offset[1], at.y + offset[2])
        first == [MovingPoint(pos, alt) EXCEPT !.alt_type = "RADIO",
                                               !.speed = speed]
    IN  Generated(add_flying_group(mission, flight,
                                   start_type_setting(settings), first),
                  theater, "")

\* AircraftConflictGenerator._generate_at_airport: every unit takes a free
\* parking slot unless the group starts on the runway;
\* flight_group_from_airport raises once no slot is left.
generate_at_airport(mission, theater, flight, cp_name, start_type) ==
    IF ~(flight.count > 0) THEN Generated(mission, theater, "AssertionError")
    ELSE
    LET cp == theater[cp_name]
        free == cp.parking_slots - cp.occupied
    IN  IF start_type = "Runway"
        THEN Generated(add_flying_group(mission, flight, start_type,
                 [MovingPoint(cp.position, 0) EXCEPT !.type = "TakeOff"]),
                 theater, "")
        ELSE IF flight.count > free
        THEN Generated(mission,
                 [theater EXCEPT ![cp_name].occupied = cp.parking_slots],
                 "NoParkingSlotError")
        ELSE Generated(add_flying_group(mission, flight, start_type,
                 [MovingPoint(cp.position, 0) EXCEPT !.type = "TakeOffParking"]),
                 [theater EXCEPT ![cp_name].occupied = @ + flight.count], "")

\* AircraftConflictGenerator._generate_at_group, at being
\* Mission.find_group(carrier group name): without that group
\* flight_group_from_unit raises.
generate_at_group(mission, theater, flight, at, start_type) ==
    IF ~(flight.count > 0) THEN Generated(mission, theater, "AssertionError")
    ELSE IF IsNone(at) THEN Generated(mission, theater, "AttributeError")
    ELSE Generated(add_flying_group(mission, flight, start_type,
             [MovingPoint(Get(at).position, 0) EXCEPT !.type = "TakeOffParking"]),
             theater, "")

\* AircraftConflictGenerator._generate_group for a Point
generate_group(mission, theater, settings, flight, at, offset) ==
    generate_inflight(mission, theater, settings, flight, at, offset)

\* The start type as planned, whatever the settings.
planned_start_type_unforced(settings, flight) == flight.start_type

\* The start type generate_planned_flight goes on with.
planned_start_type(settings, flight) ==
    IF flight.client_count = 0 /\ settings.perf_ai_parking_start
    THEN "Cold" ELSE flight.start_type

\* generate_planned_flight without its except clause: a placement error
\* leaves it.
generate_planned_flight_uncaught(mission, theater, settings, cp_name, flight, offset) ==
    LET cp == theater[cp_name]
        start_type == planned_start_type(settings, flight)
        f1 == [flight EXCEPT !.start_type = start_type]
        st == IF start_type = "Cold" THEN "Cold"
              ELSE IF start_type = "Warm" THEN "Warm" ELSE "Runway"
        tried ==
            IF start_type = "In Flight"
            THEN generate_group(mission, theater, settings, f1, cp.position,
                                offset)
            ELSE IF cp.cptype \in CarrierTypes
            THEN generate_at_group(mission, theater, f1,
                     find_group(mission, cp.carrier_group_name), st)
            ELSE generate_at_airport(mission, theater, f1, cp_name, st)
    IN  [mission |-> tried.mission, theater |-> tried.theater,
         flight |-> IF tried.exc = ""
                    THEN [f1 EXCEPT !.group = Some(tried.group)] ELSE f1,
         exc |-> tried.exc]

\* AircraftConflictGenerator.generate_planned_flight: the flight, the mission
\* and the parking slots as it leaves them, and the exception if it raised.
generate_planned_flight(mission, theater, settings, cp_name, flight, offset) ==
    LET cp == theater[cp_name]
        start_type == planned_start_type(settings, flight)
        f1 == [flight EXCEPT !.start_type = start_type]
        st == IF start_type = "Cold" THEN "Cold"
              ELSE IF start_type = "Warm" THEN "Warm" ELSE "Runway"
        tried ==
            IF start_type = "In Flight"
            THEN generate_group(mission, theater, settings, f1, cp.position,
                                offset)
            ELSE IF cp.cptype \in CarrierTypes
            THEN generate_at_group(mission, theater, f1,
                     find_group(mission, cp.carrier_group_name), st)
            ELSE generate_at_airport(mission, theater, f1, cp_name, st)
    IN  IF tried.exc = ""
        THEN [mission |-> tried.mission, theater |-> tried.theater,
              flight |-> [f1 EXCEPT !.group = Some(tried.group)],
              exc |-> ""]
        ELSE
        \* except Exception: start from the air
        LET f2 == [f1 EXCEPT !.start_type = "In Flight"]
            again == generate_group(tried.mission, tried.theater, settings, f2,
                                    cp.position, offset)
        IN  IF again.exc # ""
            THEN [mission |-> again.mission, theater |-> again.theater,
                  flight |-> f2, exc |-> again.exc]
            ELSE [mission |-> [again.mission EXCEPT
                                  !.groups[again.group].points[1].alt = 1500],
                  theater |-> again.theater,
                  flight |-> [f2 EXCEPT !.group = Some(again.group)],
                  exc |-> ""]

-----------------------------------------------------------------------------
(* AircraftConflictGenerator: group setup, behaviour and triggers.         *)

ALLIES_WW2_CHANNEL == 124
GERMAN_WW2_CHANNEL == 40
HELICOPTER_CHANNEL == 127
UHF_FALLBACK_CHANNEL == 251

\* The aircraft types AIRCRAFT_DATA has an entry for.
AIRCRAFT_DATA ==
    {"A-10C", "AJS37", "AV8BNA", "F-14B", "F-16C_50", "FA-18C_hornet",
     "JF-17", "M-2000C", "P-51D", "P-51D-30-NA", "P-47D-30"}

get_fallback_channel(unit_type) ==
    IF unit_type \in Helicopters /\ unit_type # "UH-1H" THEN HELICOPTER_CHANNEL
    ELSE IF unit_type \in {"Bf-109K-4", "FW-190A8", "FW-190D9", "Ju-88A4"}
    THEN GERMAN_WW2_CHANNEL
    ELSE IF unit_type \in {"I-16", "P-47D-30", "P-51D", "P-51D-30-NA",
                           "SpitfireLFMkIX", "SpitfireLFMkIXCW"}
    THEN ALLIES_WW2_CHANNEL
    ELSE UHF_FALLBACK_CHANNEL

\* AircraftConflictGenerator.get_intra_flight_channel; the radio registry
\* hands out the frequencies 300, 301, ... in turn.
get_intra_flight_channel(mission, airframe) ==
    IF airframe \in AIRCRAFT_DATA THEN 300 + mission.radio_allocations
    ELSE get_fallback_channel(airframe)

\* AircraftConflictGenerator.configure_behavior: the option tasks of the
\* group's first point; an argument left out is None.
configure_behavior(react_on_threat, roe, rtb_winchester, restrict_jettison) ==
    (IF ~IsNone(react_on_threat)
     THEN <<[id |-> "OptReactOnThreat", value |-> Get(react_on_threat)]>>
     ELSE <<>>)
    \o (IF ~IsNone(roe) THEN <<[id |-> "OptROE", value |-> Get(roe)]>>
        ELSE <<>>)
    \o (IF ~IsNone(restrict_jettison)
        THEN <<[id |-> "OptRestrictJettison", value |-> Get(restrict_jettison)]>>
        ELSE <<>>)
    \o (IF ~IsNone(rtb_winchester)
        THEN <<[id |-> "OptRTBOnOutOfAmmo", value |-> Get(rtb_winchester)]>>
        ELSE <<>>)
    \o <<[id |-> "OptRTBOnBingoFuel", value |-> TRUE],
         [id |-> "OptRestrictAfterburner", value |-> TRUE]>>

\* The departure runway _setup_group records for a control point.
departure_runway(cp, cp_name, runways) ==
    LET fallback_runway == RunwayData(cp_name, None)
    IN  IF cp.cptype = "AIRBASE" THEN RunwayData(cp_name, cp.atc)
        ELSE IF cp.cptype \in CarrierTypes
        THEN IF cp_name \in DOMAIN runways
             THEN runways[cp_name] ELSE fallback_runway
        ELSE fallback_runway

\* AircraftConflictGenerator._setup_group: the mission and self.flights as
\* it leaves them.
setup_group(mission, flights_, theater, runways, gid, for_task, flight) ==
    LET group == mission.groups[gid]
        single_client == flight.client_count = 1
        clients == IF Len(group.units) < flight.client_count
                   THEN Len(group.units) ELSE flight.client_count
        units == [i \in 1..Len(group.units) |->
                     IF i <= clients
                     THEN [group.units[i] EXCEPT !.human = TRUE]
                     ELSE group.units[i]]
        channel == get_intra_flight_channel(mission, flight.unit_type)
        cp == theater[flight.from_cp]
        g1 == [group EXCEPT
                 !.loadout = Some(for_task),
                 !.units = units,
                 !.late_activation = IF clients > 0 THEN FALSE ELSE @,
                 !.points[1].tasks =
                     Append(@, [id |-> "OptReactOnThreat", value |-> "EvadeFire"]),
                 !.frequency = Some(channel)]
        data == NewFlightData(flight.flight_type, units, Len(units),
                    cp.captured, flight.scheduled_in,
                    departure_runway(cp, flight.from_cp, runways),
                    departure_runway(cp, flight.from_cp, runways),
                    None, <<>>, channel, flight.targetPoint)
    IN  [mission |-> [mission EXCEPT
                         !.groups[gid] = g1,
                         !.radio_allocations =
                             IF flight.unit_type \in AIRCRAFT_DATA
                             THEN @ + 1 ELSE @],
         flights |-> Append(flights_, data)]

GUNFIGHTERS == {"F-86F", "MiG-15bis"}

\* The behaviour profile of a flight type: the group task, the task whose
\* loadout is taken, the arguments of configure_behavior and the tasks
\* added after it.  A type without profile is configured by
\* configure_unknown_task, which does not call _setup_group.
Profile(task, for_task, react, roe, rtb, jettison, more) ==
    [known |-> TRUE, task |-> task, for_task |-> for_task,
     behavior |-> configure_behavior(react, roe, rtb, jettison),
     more |-> more]

profile_for(flight) ==
    LET t == flight.flight_type
    IN  IF t \in {"CAP", "BARCAP", "TARCAP", "INTERCEPTION"}
        THEN Profile("CAP", "CAP", None, None,
                 Some(IF flight.unit_type \in GUNFIGHTERS
                      THEN "Cannon" ELSE "AAM"), None,
                 <<[id |-> "EngageTargets", max_distance_nm |-> 50,
                    targets |-> "Air"]>>)
        ELSE IF t \in {"CAS", "BAI"}
        THEN Profile("CAS", "CAS", Some("EvadeFire"),
                 Some("OpenFireWeaponFree"), Some("Unguided"), Some(TRUE),
                 <<[id |-> "EngageTargets", max_distance_nm |-> 10,
                    targets |-> "GroundVehicles"]>>)
        ELSE IF t \in {"SEAD", "DEAD"}
        THEN Profile("SEAD", "SEAD", Some("EvadeFire"), Some("OpenFire"),
                 Some("ASM"), Some(TRUE), <<>>)
        ELSE IF t = "STRIKE"
        THEN Profile("Pinpoint Strike", "GroundAttack", Some("EvadeFire"),
                 Some("OpenFire"), None, Some(TRUE), <<>>)
        ELSE IF t = "ANTISHIP"
        THEN Profile("Antiship Strike", "AntishipStrike", Some("EvadeFire"),
                 Some("OpenFire"), None, Some(TRUE), <<>>)
        ELSE IF t = "ESCORT"
        THEN Profile("Escort", "Escort", None, Some("OpenFire"), None,
                 Some(TRUE), <<>>)
        ELSE [known |-> FALSE, task |-> "", for_task |-> "",
              behavior |-> configure_behavior(None, None, None, None),
              more |-> <<>>]

\* setup_flight_group up to the waypoint loop without the reset of the
\* waypoints' tot.
configure_flight_no_reset(mission, flights_, theater, runways, gid, flight) ==
    LET prof == profile_for(flight)
        set == IF prof.known
               THEN setup_group(
                        [mission EXCEPT !.groups[gid].task = prof.task],
                        flights_, theater, runways, gid,
                        prof.for_task, flight)
               ELSE [mission |-> mission, flights |-> flights_]
        eplrs == IF flight.unit_type \in {"A-10C", "F-16C_50"}
                 THEN <<[id |-> "EPLRS", value |-> gid]>> ELSE <<>>
    IN  [mission |-> [set.mission EXCEPT !.groups[gid].points[1].tasks =
                         prof.behavior \o prof.more \o eplrs],
         flights |-> set.flights,
         flight |-> flight]

\* setup_flight_group up to the waypoint loop: configure_<task>,
\* configure_eplrs, and every waypoint's tot reset to None.
configure_flight(mission, flights_, theater, runways, gid, flight) ==
    LET prof == profile_for(flight)
        set == IF prof.known
               THEN setup_group(
                        [mission EXCEPT !.groups[gid].task = prof.task],
                        flights_, theater, runways, gid,
                        prof.for_task, flight)
               ELSE [mission |-> mission, flights |-> flights_]
        eplrs == IF flight.unit_type \in {"A-10C", "F-16C_50"}
                 THEN <<[id |-> "EPLRS", value |-> gid]>> ELSE <<>>
    IN  [mission |-> [set.mission EXCEPT !.groups[gid].points[1].tasks =
                         prof.behavior \o prof.more \o eplrs],
         flights |-> set.flights,
         flight |-> [flight EXCEPT !.flight_plan.waypoints =
                        [i \in 1..Len(@) |->
                            IF i = 1 THEN @[i] ELSE [@[i] EXCEPT !.tot = None]]]]

\* setup_interceptor_triggers that adds the zone and the condition, and no
\* message.
setup_interceptor_triggers_silent(mission, cp, cp_name, trigger) ==
    LET zone == [id |-> Len(mission.zones) + 1, position |-> cp.position,
                 radius |-> 25000, hidden |-> FALSE, name |-> "ITZ"]
        color == IF cp.captured THEN "enemy" ELSE "player"
    IN  [mission |-> [mission EXCEPT !.zones = Append(@, zone)],
         trigger |-> [trigger EXCEPT
             !.conditions = Append(@, [id |-> "PartOfCoalitionInZone",
                                       coalition |-> color, zone |-> zone.id])]]

\* AircraftConflictGenerator.setup_interceptor_triggers: the trigger zone
\* added to the mission, and the condition and the message added to the
\* trigger.
setup_interceptor_triggers(mission, cp, cp_name, trigger) ==
    LET zone == [id |-> Len(mission.zones) + 1, position |-> cp.position,
                 radius |-> 25000, hidden |-> FALSE, name |-> "ITZ"]
        color == IF cp.captured THEN "enemy" ELSE "player"
    IN  [mission |-> [mission EXCEPT !.zones = Append(@, zone)],
         trigger |-> [trigger EXCEPT
             !.conditions = Append(@, [id |-> "PartOfCoalitionInZone",
                                       coalition |-> color, zone |-> zone.id]),
             !.actions = Append(@, [id |-> "MessageToAll", about |-> cp_name,
                                    seconds |-> 20])]]

\* setup_group_activation_trigger that also marks the uncontrolled group
\* for late activation.
setup_group_activation_trigger_always_late(mission, theater, flight, gid) ==
    IF ~(flight.scheduled_in > 0 /\ flight.client_count = 0) THEN mission
    ELSE
    LET cp == theater[flight.from_cp]
        uncontrolled == flight.start_type # "In Flight"
                        /\ cp.cptype \notin CarrierTypes
        t0 == [id |-> "TriggerOnce",
               name |-> IF uncontrolled THEN "FlightStartTrigger"
                        ELSE "FlightLateActivationTrigger",
               group |-> gid,
               conditions |-> <<[id |-> "TimeAfter",
                                 seconds |-> flight.scheduled_in * 60]>>,
               actions |-> <<>>]
        t1 == IF cp.cptype = "AIRBASE"
              THEN [t0 EXCEPT !.conditions =
                       Append(@, [id |-> "CoalitionHasAirdrome",
                                  coalition |-> IF cp.captured THEN "player"
                                                ELSE "enemy",
                                  airdrome |-> flight.from_cp])]
              ELSE t0
        i == IF flight.flight_type = "INTERCEPTION"
             THEN setup_interceptor_triggers(mission, cp, flight.from_cp, t1)
             ELSE [mission |-> mission, trigger |-> t1]
        g == i.mission.groups[gid]
        g1 == IF uncontrolled
              THEN [g EXCEPT !.late_activation = TRUE,
                             !.uncontrolled = TRUE,
                             !.trigger_actions = Append(@, "StartCommand")]
              ELSE [g EXCEPT !.late_activation = TRUE]
        t2 == [i.trigger EXCEPT !.actions =
                  Append(@, IF uncontrolled
                            THEN [id |-> "AITaskPush", group |-> gid,
                                  task |-> Len(g1.trigger_actions)]
                            ELSE [id |-> "ActivateGroup", group |-> gid])]
    IN  [i.mission EXCEPT !.groups[gid] = g1, !.triggers = Append(@, t2)]

\* setup_group_activation_trigger that delays flights with clients too.
setup_group_activation_trigger_for_clients(mission, theater, flight, gid) ==
    IF ~(flight.scheduled_in > 0) THEN mission
    ELSE
    LET cp == theater[flight.from_cp]
        uncontrolled == flight.start_type # "In Flight"
                        /\ cp.cptype \notin CarrierTypes
        t0 == [id |-> "TriggerOnce",
               name |-> IF uncontrolled THEN "FlightStartTrigger"
                        ELSE "FlightLateActivationTrigger",
               group |-> gid,
               conditions |-> <<[id |-> "TimeAfter",
                                 seconds |-> flight.scheduled_in * 60]>>,
               actions |-> <<>>]
        t1 == IF cp.cptype = "AIRBASE"
              THEN [t0 EXCEPT !.conditions =
                       Append(@, [id |-> "CoalitionHasAirdrome",
                                  coalition |-> IF cp.captured THEN "player"
                                                ELSE "enemy",
                                  airdrome |-> flight.from_cp])]
              ELSE t0
        i == IF flight.flight_type = "INTERCEPTION"
             THEN setup_interceptor_triggers(mission, cp, flight.from_cp, t1)
             ELSE [mission |-> mission, trigger |-> t1]
        g == i.mission.groups[gid]
        g1 == IF uncontrolled
              THEN [g EXCEPT !.late_activation = FALSE,
                             !.uncontrolled = TRUE,
                             !.trigger_actions = Append(@, "StartCommand")]
              ELSE [g EXCEPT !.late_activation = TRUE]
        t2 == [i.trigger EXCEPT !.actions =
                  Append(@, IF uncontrolled
                            THEN [id |-> "AITaskPush", group |-> gid,
                                  task |-> Len(g1.trigger_actions)]
                            ELSE [id |-> "ActivateGroup", group |-> gid])]
    IN  [i.mission EXCEPT !.groups[gid] = g1, !.triggers = Append(@, t2)]

\* AircraftConflictGenerator.setup_group_activation_trigger
setup_group_activation_trigger(mission, theater, flight, gid) ==
    IF ~(flight.scheduled_in > 0 /\ flight.client_count = 0) THEN mission
    ELSE
    LET cp == theater[flight.from_cp]
        uncontrolled == flight.start_type # "In Flight"
                        /\ cp.cptype \notin CarrierTypes
        t0 == [id |-> "TriggerOnce",
               name |-> IF uncontrolled THEN "FlightStartTrigger"
                        ELSE "FlightLateActivationTrigger",
               group |-> gid,
               conditions |-> <<[id |-> "TimeAfter",
                                 seconds |-> flight.scheduled_in * 60]>>,
               actions |-> <<>>]
        t1 == IF cp.cptype = "AIRBASE"
              THEN [t0 EXCEPT !.conditions =
                       Append(@, [id |-> "CoalitionHasAirdrome",
                                  coalition |-> IF cp.captured THEN "player"
                                                ELSE "enemy",
                                  airdrome |-> flight.from_cp])]
              ELSE t0
        i == IF flight.flight_type = "INTERCEPTION"
             THEN setup_interceptor_triggers(mission, cp, flight.from_cp, t1)
             ELSE [mission |-> mission, trigger |-> t1]
        g == i.mission.groups[gid]
        g1 == IF uncontrolled
              THEN [g EXCEPT !.late_activation = FALSE,
                             !.uncontrolled = TRUE,
                             !.trigger_actions = Append(@, "StartCommand")]
              ELSE [g EXCEPT !.late_activation = TRUE]
        t2 == [i.trigger EXCEPT !.actions =
                  Append(@, IF uncontrolled
                            THEN [id |-> "AITaskPush", group |-> gid,
                                  task |-> Len(g1.trigger_actions)]
                            ELSE [id |-> "ActivateGroup", group |-> gid])]
    IN  [i.mission EXCEPT !.groups[gid] = g1, !.triggers = Append(@, t2)]

\* The waypoint loop of setup_flight_group from the i-th waypoint of the
\* flight plan on: the mission and the flight as it leaves them.
RECURSIVE build_waypoints(_, _, _, _, _)
build_waypoints(mission, gid, flight, timing_, i) ==
    IF i > Len(flight.flight_plan.waypoints)
    THEN [mission |-> mission, flight |-> flight]
    ELSE
    LET point == flight.flight_plan.waypoints[i]
    IN  IF point.only_for_player /\ flight.client_count = 0
        THEN build_waypoints(mission, gid, flight, timing_, i + 1)
        ELSE
        LET b == for_waypoint_build(PydcsWaypointBuilder(
                     point, mission.groups[gid], flight, timing_, mission))
        IN  build_waypoints(
                [mission EXCEPT !.groups[gid] = b.group], gid,
                [flight EXCEPT !.flight_plan.waypoints[i] = b.waypoint],
                timing_, i + 1)

\* AircraftConflictGenerator._setup_custom_payload
setup_custom_payload(mission, gid, flight) ==
    IF flight.use_custom_loadout
    THEN [mission EXCEPT !.groups[gid].loadout = Some("Custom")]
    ELSE mission

\* setup_flight_group with the waypoints handed to the FlightData before
\* the waypoint loop.
setup_flight_group_snapshot_first(mission, flights_, theater, runways, gid, flight, timing_) ==
    LET c == configure_flight(mission, flights_, theater, runways, gid, flight)
        b == build_waypoints(c.mission, gid, c.flight, timing_, 2)
    IN  IF c.flights = <<>>
        THEN [mission |-> c.mission, flights |-> c.flights,
              flight |-> c.flight, exc |-> "IndexError"]
        ELSE [mission |-> setup_custom_payload(b.mission, gid, b.flight),
              flights |-> [c.flights EXCEPT ![Len(c.flights)].waypoints =
                              points(c.flight)],
              flight |-> b.flight, exc |-> ""]

\* AircraftConflictGenerator.setup_flight_group: the mission, self.flights
\* and the flight as it leaves them, and the exception if it raised.
setup_flight_group(mission, flights_, theater, runways, gid, flight, timing_) ==
    LET c == configure_flight(mission, flights_, theater, runways, gid, flight)
        b == build_waypoints(c.mission, gid, c.flight, timing_, 2)
    IN  IF c.flights = <<>>
        THEN [mission |-> b.mission, flights |-> c.flights,
              flight |-> b.flight, exc |-> "IndexError"]
        ELSE [mission |-> setup_custom_payload(b.mission, gid, b.flight),
              flights |-> [c.flights EXCEPT ![Len(c.flights)].waypoints =
                              points(b.flight)],
              flight |-> b.flight, exc |-> ""]

-----------------------------------------------------------------------------
(* Inputs of the timing specification.                                     *)

MaxFlights == 2

TargetPos == Point(0, 0)
IngressPoints == {Point(-37415, 0), Point(-9260, 0)}
JoinPoints == {Point(-93537, 0), Point(-37415, 0)}
EgressPoints == {Point(0, 28061), Point(1852, 0)}
\* The split point lies 18710 m from the egress point.
SplitFor(egress) == Point(egress.x + 11226, egress.y + 14968)
\* Hold points, relative to the join point: on it, and 9260 m away.
HoldOffsets == {Point(0, 0), Point(-5556, 7408)}
HoldPointsFor(join) == {Point(join.x + o.x, join.y + o.y) : o \in HoldOffsets}

PackageWaypoints ==
    {[join |-> j, ingress |-> i, egress |-> e, split |-> SplitFor(e)] :
        j \in JoinPoints, i \in IngressPoints, e \in EgressPoints}

TimesOverTarget == {3600, 120}
PrimaryTasks == {"CAP", "BARCAP", "TARCAP", "STRIKE"}
Speeds == {200, 400, 450}

\* A flight as far as timing reads it: nothing but its identity.
TimedFlight(i) == [name |-> i]

Packages ==
    {[time_over_target |-> t, waypoints |-> w,
      target |-> [position |-> TargetPos], primary_task |-> p,
      flights |-> [i \in 1..n |-> TimedFlight(i)]] :
        t \in {None} \cup {Some(x) : x \in TimesOverTarget},
        w \in {None} \cup {Some(x) : x \in PackageWaypoints},
        p \in PrimaryTasks,
        n \in 0..MaxFlights}

\* The legs whose travel time is asked for: every leg of the packages above
\* that starts at the first join or egress point, and the two ingress legs.
Legs ==
    {<<i, TargetPos>> : i \in IngressPoints}
    \cup {<<Point(-93537, 0), i>> : i \in IngressPoints}
    \cup {<<TargetPos, e>> : e \in EgressPoints}
    \cup {<<Point(0, 28061), SplitFor(Point(0, 28061))>>}
    \cup {<<h, Point(-93537, 0)>> : h \in HoldPointsFor(Point(-93537, 0))}

NoCall == [op |-> "", args |-> <<>>, value |-> None]

-----------------------------------------------------------------------------
(* Inputs of the radio specifications.                                     *)

MaxChannels == 5
MaxAwacs == 1
MaxTankers == 1
MaxCalls == 3

SeqsUpTo(S, n) == UNION {[1..k -> S] : k \in 0..n}

IntraFlightChannel == UHF_FALLBACK_CHANNEL
AtcFrequencies == {124, 127, 251}
AwacsFrequencies == {40}
TankerFrequencies == {40, 127}

\* A FlightData of a flight of two F-16Cs before its channels are assigned.
RadioFlightData(units, departure, arrival, divert) ==
    NewFlightData("CAP", units, Len(units), TRUE, 0, departure, arrival,
                  divert, <<>>, IntraFlightChannel, None)

UnitLists ==
    UNION {{<<FlyingUnit("F-16C_50", TRUE, n), FlyingUnit("F-16C_50", FALSE, n)>>,
            <<FlyingUnit("F-16C_50", FALSE, n), FlyingUnit("F-16C_50", FALSE, n)>>} :
           n \in 1..MaxChannels}

Departures == {RunwayData("Departure", a) : a \in {None, Some(124), Some(251)}}
Arrivals == {RunwayData("Arrival", a) : a \in {None, Some(124), Some(127)}}
Diverts == {None} \cup {Some(RunwayData("Divert", a)) : a \in {None, Some(127)}}

FlightDatas ==
    {RadioFlightData(u, d, a, v) :
        u \in UnitLists, d \in Departures, v \in Diverts,
        a \in Arrivals} \cup
    {RadioFlightData(u, d, d, v) :
        u \in UnitLists, d \in Departures, v \in Diverts}

AirSupports ==
    {[awacs |-> a, tankers |-> t] :
        a \in SeqsUpTo(AwacsFrequencies, MaxAwacs),
        t \in SeqsUpTo(TankerFrequencies, MaxTankers)}

RadioIndexes == {None} \cup {Some(r) : r \in RadioIds}

Allocators ==
    {[kind |-> "Common", inter_flight_radio_index |-> e,
      intra_flight_radio_index |-> a] : e \in RadioIndexes, a \in RadioIndexes}
    \cup {[kind |-> k, inter_flight_radio_index |-> None,
           intra_flight_radio_index |-> None] :
             k \in {"Warthog", "Viggen", "SCR522"}}

NoPackage ==
    [time_over_target |-> None, waypoints |-> None,
     target |-> [position |-> TargetPos], primary_task |-> "CAP",
     flights |-> <<>>]
NoFlightData ==
    RadioFlightData(<<>>, RunwayData("", None), RunwayData("", None), None)
NoAirSupport == [awacs |-> <<>>, tankers |-> <<>>]
NoAllocator ==
    [kind |-> "", inter_flight_radio_index |-> None,
     intra_flight_radio_index |-> None]

-----------------------------------------------------------------------------
(* Inputs of the generation specification.                                 *)

MaxPackages == 2
MaxGenFlights == 3

\* The flights of an order, over all its packages, are at most these.
MaxOrderFlights == 2 * MaxGenFlights

\* The package waypoints and the time-over-target of every planned package:
\* join at 3100 s, ingress at 3400 s, egress at 3750 s, split at 3850 s.
GenWaypoints ==
    [join |-> Point(-93537, 0), ingress |-> Point(-37415, 0),
     egress |-> Point(0, 28061), split |-> SplitFor(Point(0, 28061))]
GenTimeOverTarget == 3600

\* A planned flight.
Flight(flight_type, unit_type, count, client_count, start_type, scheduled_in, from_cp, waypoints) ==
    [flight_type |-> flight_type, unit_type |-> unit_type, count |-> count,
     client_count |-> client_count, start_type |-> start_type,
     scheduled_in |-> scheduled_in, from_cp |-> from_cp,
     flight_plan |-> [waypoints |-> waypoints], group |-> None,
     targetPoint |-> Some(TargetPos), use_custom_loadout |-> FALSE]

Waypoint(waypoint_type, position) ==
    FlightWaypoint(waypoint_type, position.x, position.y, 6000)

\* The hold point 9260 m (49 s at 400 kn) before the join point.
FarHold == Point(GenWaypoints.join.x - 5556, GenWaypoints.join.y + 7408)

StrikeTargets ==
    <<[position |-> Point(0, 0)], [position |-> Point(40, 20)]>>

\* What the targetGroup of an ingress waypoint refers to: the ground object
\* of the SAM site, or a control point, which is no ground object.
SamSite == [class |-> "TheaterGroundObject", group_identifier |-> "SAM"]
NoGroundObject == [class |-> "ControlPoint", group_identifier |-> "SAM"]

\* The flight plan of an attack flight that holds at the given point.
AttackPlan(hold, ingress_type, target_type, departure, target_group) ==
    <<Waypoint("TAKEOFF", departure),
      Waypoint("LOITER", hold),
      Waypoint("JOIN", GenWaypoints.join),
      [Waypoint(ingress_type, GenWaypoints.ingress) EXCEPT
          !.targets = StrikeTargets,
          !.targetGroup = Some(target_group)],
      Waypoint(target_type, TargetPos),
      Waypoint("EGRESS", GenWaypoints.egress),
      Waypoint("SPLIT", GenWaypoints.split),
      [Waypoint("NAV", departure) EXCEPT !.only_for_player = TRUE],
      Waypoint("LANDING_POINT", departure)>>

PatrolPlan(departure) ==
    <<Waypoint("TAKEOFF", departure),
      Waypoint("PATROL_TRACK", Point(-20000, 0)),
      [Waypoint("PATROL", Point(20000, 0)) EXCEPT !.alt_type = "RADIO"],
      Waypoint("TARGET_SHIP", TargetPos),
      [Waypoint("NAV", departure) EXCEPT !.only_for_player = TRUE],
      Waypoint("LANDING_POINT", departure)>>

HomePos == Point(-150000, 0)
CarrierPos == Point(-120000, 50000)
FarPos == Point(300000, 0)
FrontPos == Point(100000, -50000)

\* The flights a package is cut from: its first n flights are planned.
StrikeRosterOn(target_group) ==
    <<Flight("STRIKE", "F-16C_50", 2, 1, "Warm", 0, "Home",
             AttackPlan(FarHold, "INGRESS_STRIKE", "TARGET_POINT", HomePos,
                        SamSite)),
      Flight("SEAD", "FA-18C_hornet", 2, 0, "Cold", 5, "Carrier",
             AttackPlan(GenWaypoints.join, "INGRESS_SEAD", "TARGET_GROUP_LOC",
                        CarrierPos, target_group)),
      Flight("ESCORT", "Su-27", 2, 0, "Runway", 0, "Far",
             AttackPlan(FarHold, "NAV", "NAV", FarPos, SamSite))>>

StrikeRoster == StrikeRosterOn(SamSite)

PatrolRoster ==
    <<Flight("EWAR", "Ka-50", 1, 2, "Warm", 0, "Home", PatrolPlan(HomePos)),
      Flight("BARCAP", "F-14B", 2, 0, "Cold", 10, "Home", PatrolPlan(HomePos)),
      Flight("INTERCEPTION", "MiG-15bis", 1, 0, "In Flight", 3, "Front",
             PatrolPlan(FrontPos))>>

Prefix(roster, n) ==
    [i \in 1..n |-> roster[((i - 1) % Len(roster)) + 1]]

GenPackage(time_over_target, waypoints, primary_task, roster, n) ==
    [time_over_target |-> time_over_target, waypoints |-> waypoints,
     target |-> [position |-> TargetPos], primary_task |-> primary_task,
     flights |-> Prefix(roster, n)]

\* The packages of an order, of n flights each: a strike package as
\* planned, with its SEAD flight sent against sead_target, a patrol package
\* as planned, a package without time-over-target and one without
\* waypoints.
GenPackages(n, sead_target) ==
    {GenPackage(Some(GenTimeOverTarget), Some(GenWaypoints), "STRIKE",
                StrikeRosterOn(sead_target), n),
     GenPackage(Some(GenTimeOverTarget), Some(GenWaypoints), "BARCAP",
                PatrolRoster, n),
     GenPackage(None, Some(GenWaypoints), "STRIKE",
                StrikeRosterOn(sead_target), n),
     GenPackage(Some(GenTimeOverTarget), None, "BARCAP", PatrolRoster, n)}

ControlPoint(cptype, captured, culled, position, parking_slots, occupied) ==
    [cptype |-> cptype, captured |-> captured, culled |-> culled,
     position |-> position, parking_slots |-> parking_slots,
     occupied |-> occupied, carrier_group_name |-> "CVN", atc |-> Some(118)]

\* The control points: a home base with three parking slots, one of them
\* taken by an earlier generation, a carrier, an enemy base at the front
\* and a culled enemy base.
Theater ==
    [n \in {"Home", "Carrier", "Front", "Far"} |->
        IF n = "Home" THEN ControlPoint("AIRBASE", TRUE, FALSE, HomePos, 3, 1)
        ELSE IF n = "Carrier"
        THEN ControlPoint("AIRCRAFT_CARRIER_GROUP", TRUE, FALSE, CarrierPos,
                          0, 0)
        ELSE IF n = "Front"
        THEN ControlPoint("AIRBASE", FALSE, FALSE, FrontPos, 2, 0)
        ELSE ControlPoint("AIRBASE", FALSE, TRUE, FarPos, 4, 0)]

Settings(perf_ai_parking_start, cold_start) ==
    [perf_ai_parking_start |-> perf_ai_parking_start,
     cold_start |-> cold_start]

NamedGroup(id, position) == [id |-> id, position |-> position]

\* The mission before the aircraft are generated: the ground and ship
\* groups are there, with or without the carrier's group.
Mission(names) ==
    [groups |-> <<>>,
     named_groups |-> [n \in names |->
                          IF n = "CVN" THEN NamedGroup(100, CarrierPos)
                          ELSE NamedGroup(101, TargetPos)],
     triggers |-> <<>>, zones |-> <<>>, radio_allocations |-> 0]

\* The settings, the mission and the carrier runways of a generation, and
\* what its SEAD flights are sent against: the SAM site with and without
\* its group in the mission, and no ground object.
Worlds ==
    {[settings |-> Settings(FALSE, FALSE), names |-> {"CVN", "SAM"},
      runways |-> [n \in {"Carrier"} |-> RunwayData("Carrier", Some(127))],
      sead_target |-> SamSite],
     [settings |-> Settings(TRUE, FALSE), names |-> {"CVN"},
      runways |-> <<>>, sead_target |-> SamSite],
     [settings |-> Settings(FALSE, TRUE), names |-> {"SAM"},
      runways |-> <<>>, sead_target |-> NoGroundObject]}

\* The random shifts of an in-flight spawn position.
SpawnOffsets == {<<100, 100>>, <<1000, 1000>>}

NoGame == [settings |-> Settings(FALSE, FALSE), theater |-> <<>>]

\* No generation is under way.
NoGeneration ==
    /\ ato = <<>>
    /\ dynamic_runways = <<>>
    /\ game = NoGame
    /\ m = Mission({})
    /\ flights = <<>>
    /\ pc = ""
    /\ cur = [p |-> 0, f |-> 0]

-----------------------------------------------------------------------------
(* Timing specification: one package, the calls of the timing API on it.   *)

TimingInit ==
    /\ pkg \in Packages
    /\ timing = None
    /\ ret = NoCall
    /\ exc = ""
    /\ fdata = NoFlightData
    /\ air_support = NoAirSupport
    /\ allocator = NoAllocator
    /\ NoGeneration

\* timing = PackageWaypointTiming.for_package(package)
ForPackage ==
    /\ IsNone(timing)
    /\ exc = ""
    /\ LET r == for_package(pkg)
       IN  /\ timing' = r.value
           /\ exc' = r.exc
    /\ ret' = [op |-> "for_package", args |-> <<>>, value |-> None]
    /\ UNCHANGED <<pkg, fdata, air_support, allocator, gen_vars>>

\* PackageWaypointTiming.travel_time(a, b, speed)
TravelTime ==
    \E leg \in Legs, speed \in Speeds :
        /\ ret' = [op |-> "travel_time", args |-> <<leg[1], leg[2], speed>>,
                   value |-> Some(travel_time(leg[1], leg[2], speed))]
        /\ UNCHANGED <<pkg, timing, exc, fdata, air_support, allocator, gen_vars>>

\* timing.race_track_start, timing.race_track_end
RaceTrack ==
    /\ ~IsNone(timing)
    /\ ret' = [op |-> "race_track", args |-> <<>>,
               value |-> Some(<<race_track_start(Get(timing)),
                                race_track_end(Get(timing))>>)]
    /\ UNCHANGED <<pkg, timing, exc, fdata, air_support, allocator, gen_vars>>

\* timing.push_time(flight, hold_point)
PushTime ==
    /\ ~IsNone(timing)
    /\ \E i \in 1..Len(pkg.flights),
          h \in HoldPointsFor(Get(pkg.waypoints).join) :
            ret' = [op |-> "push_time", args |-> <<pkg.flights[i], h>>,
                    value |-> Some(push_time(Get(timing), pkg.flights[i], h))]
    /\ UNCHANGED <<pkg, timing, exc, fdata, air_support, allocator, gen_vars>>

\* timing.tot_for_waypoint(waypoint)
TotForWaypoint ==
    /\ ~IsNone(timing)
    /\ \E t \in FlightWaypointType :
        LET waypoint == [waypoint_type |-> t, x |-> 0, y |-> 0]
        IN  ret' = [op |-> "tot_for_waypoint", args |-> <<waypoint>>,
                    value |-> Some(tot_for_waypoint(Get(timing), waypoint))]
    /\ UNCHANGED <<pkg, timing, exc, fdata, air_support, allocator, gen_vars>>

\* timing.depart_time_for_waypoint(waypoint, flight)
DepartTimeForWaypoint ==
    /\ ~IsNone(timing)
    /\ \E t \in {"LOITER", "PATROL", "NAV"}, i \in 1..Len(pkg.flights),
          h \in HoldPointsFor(Get(pkg.waypoints).join) :
        LET waypoint == [waypoint_type |-> t, x |-> h.x, y |-> h.y]
        IN  ret' = [op |-> "depart_time_for_waypoint",
                    args |-> <<waypoint, pkg.flights[i]>>,
                    value |-> Some(depart_time_for_waypoint(
                                      Get(timing), waypoint, pkg.flights[i]))]
    /\ UNCHANGED <<pkg, timing, exc, fdata, air_support, allocator, gen_vars>>

TimingNext ==
    \/ ForPackage
    \/ TravelTime
    \/ RaceTrack
    \/ PushTime
    \/ TotForWaypoint
    \/ DepartTimeForWaypoint

SpecTiming == TimingInit /\ [][TimingNext]_vars

-----------------------------------------------------------------------------
(* Radio specification: one flight, its aircraft type's allocator run on   *)
(* it once.                                                                *)

RadioInit ==
    /\ pkg = NoPackage
    /\ timing = None
    /\ ret = NoCall
    /\ exc = ""
    /\ fdata \in FlightDatas
    /\ air_support \in AirSupports
    /\ allocator \in Allocators
    /\ NoGeneration

\* The state after allocator.assign_channels_for_flight(flight, air_support)
\* has ended with outcome r.
AssignedChannels(r) ==
    /\ ret = NoCall
    /\ fdata' = r.flight
    /\ exc' = r.exc
    /\ ret' = [op |-> "assign_channels_for_flight", args |-> <<>>,
               value |-> None]
    /\ UNCHANGED <<pkg, timing, air_support, allocator, gen_vars>>

CommonAssign ==
    /\ allocator.kind = "Common"
    /\ AssignedChannels(
           common_assign_channels_for_flight(allocator, fdata, air_support))

WarthogAssign ==
    /\ allocator.kind = "Warthog"
    /\ AssignedChannels(
           warthog_assign_channels_for_flight(allocator, fdata, air_support))

ViggenAssign ==
    /\ allocator.kind = "Viggen"
    /\ AssignedChannels(
           viggen_assign_channels_for_flight(allocator, fdata, air_support))

SCR522Assign ==
    /\ allocator.kind = "SCR522"
    /\ AssignedChannels(
           scr522_assign_channels_for_flight(allocator, fdata, air_support))

RadioNext ==
    \/ CommonAssign
    \/ WarthogAssign
    \/ ViggenAssign
    \/ SCR522Assign

SpecRadio == RadioInit /\ [][RadioNext]_vars

-----------------------------------------------------------------------------
(* Channel specification: assign_channel and channel_for called on one     *)
(* FlightData in any order.                                                *)

ChannelIds == {1, 2}
CalledFrequencies == {124, 127, 251}

ChannelInit ==
    /\ pkg = NoPackage
    /\ timing = None
    /\ ret = NoCall
    /\ exc = ""
    /\ fdata \in {RadioFlightData(u, RunwayData("Departure", None),
                                  RunwayData("Departure", None), None) :
                     u \in {<<FlyingUnit("F-16C_50", TRUE, MaxChannels)>>,
                            <<FlyingUnit("F-16C_50", FALSE, MaxChannels)>>}}
    /\ air_support = NoAirSupport
    /\ allocator = NoAllocator
    /\ NoGeneration

\* flight.assign_channel(radio_id, channel_id, frequency)
AssignChannel ==
    /\ Len(fdata.calls) < MaxCalls
    /\ \E r \in RadioIds, c \in ChannelIds, f \in CalledFrequencies :
        /\ fdata' = assign_channel(fdata, r, c, f)
        /\ ret' = [op |-> "assign_channel", args |-> <<r, c, f>>,
                   value |-> None]
    /\ UNCHANGED <<pkg, timing, exc, air_support, allocator, gen_vars>>

\* flight.channel_for(frequency)
ChannelFor ==
    /\ \E f \in CalledFrequencies :
        ret' = [op |-> "channel_for", args |-> <<f>>,
                value |-> Some(channel_for(fdata, f))]
    /\ UNCHANGED <<pkg, timing, exc, fdata, air_support, allocator, gen_vars>>

ChannelNext ==
    \/ AssignChannel
    \/ ChannelFor

SpecChannel == ChannelInit /\ [][ChannelNext]_vars

-----------------------------------------------------------------------------
(* Generation specification: generate_flights run on an air tasking order. *)

GenInit ==
    /\ pkg = NoPackage
    /\ timing = None
    /\ ret = NoCall
    /\ exc = ""
    /\ fdata = NoFlightData
    /\ air_support = NoAirSupport
    /\ allocator = NoAllocator
    /\ \E w \in Worlds :
        /\ \E k \in 1..MaxPackages, n \in 0..MaxGenFlights :
               /\ k * n <= MaxOrderFlights
               /\ ato \in [1..k -> GenPackages(n, w.sead_target)]
        /\ game = [settings |-> w.settings, theater |-> Theater]
        /\ m = Mission(w.names)
        /\ dynamic_runways = w.runways
    /\ flights = <<>>
    /\ pc = "start"
    /\ cur = [p |-> 1, f |-> 1]

\* The package and the flight the loops of generate_flights stand at.
Package == ato[cur.p]
AtFlight == cur.f <= Len(Package.flights)
TheFlight == Package.flights[cur.f]

\* A position_culled that culls nothing.
position_culled_never(game_, cp_name) == FALSE

\* Game.position_culled(flight.from_cp.position)
position_culled(game_, cp_name) == game_.theater[cp_name].culled

\* self.clear_parking_slots()
ClearParkingSlots ==
    /\ pc = "start"
    /\ game' = [game EXCEPT !.theater =
                   [n \in DOMAIN @ |->
                       IF @[n].cptype = "AIRBASE"
                       THEN [@[n] EXCEPT !.occupied = 0] ELSE @[n]]]
    /\ pc' = "package"
    /\ UNCHANGED <<timing, exc, ato, dynamic_runways, m, flights, cur,
                   api_vars>>

\* for package in ato.packages: PackageWaypointTiming.for_package(package)
\* with the failure caught and the package passed over.
PackageTiming_caught ==
    /\ pc = "package"
    /\ cur.p <= Len(ato)
    /\ LET r == for_package(Package)
       IN  /\ timing' = r.value
           /\ IF r.exc # ""
              THEN /\ pc' = "package"
                   /\ cur' = [p |-> cur.p + 1, f |-> 1]
                   /\ exc' = exc
              ELSE /\ pc' = "flight"
                   /\ cur' = [cur EXCEPT !.f = 1]
                   /\ exc' = exc
    /\ UNCHANGED <<ato, dynamic_runways, game, m, flights, api_vars>>

\* for package in ato.packages:
\*     timing = PackageWaypointTiming.for_package(package)
\* An exception of for_package leaves generate_flights.
PackageTiming ==
    /\ pc = "package"
    /\ cur.p <= Len(ato)
    /\ LET r == for_package(Package)
       IN  /\ timing' = r.value
           /\ exc' = r.exc
           /\ pc' = IF r.exc # "" THEN "raised" ELSE "flight"
    /\ cur' = [cur EXCEPT !.f = 1]
    /\ UNCHANGED <<ato, dynamic_runways, game, m, flights, api_vars>>

\* The loop over the packages has ended: generate_flights returns.
Return ==
    /\ pc = "package"
    /\ cur.p > Len(ato)
    /\ pc' = "done"
    /\ UNCHANGED <<timing, exc, ato, dynamic_runways, game, m, flights, cur,
                   api_vars>>

\* The loop over the flights of the package has ended.
NextPackage ==
    /\ pc = "flight"
    /\ ~AtFlight
    /\ pc' = "package"
    /\ cur' = [p |-> cur.p + 1, f |-> 1]
    /\ UNCHANGED <<timing, exc, ato, dynamic_runways, game, m, flights,
                   api_vars>>

\* if flight.client_count == 0 and culled: continue
SkipCulled ==
    /\ pc = "flight"
    /\ AtFlight
    /\ TheFlight.client_count = 0 /\ position_culled(game, TheFlight.from_cp)
    /\ cur' = [cur EXCEPT !.f = @ + 1]
    /\ UNCHANGED <<timing, exc, ato, dynamic_runways, game, m, flights, pc,
                   api_vars>>

\* group = self.generate_planned_flight(flight.from_cp, country, flight)
GeneratePlannedFlight ==
    /\ pc = "flight"
    /\ AtFlight
    /\ ~(TheFlight.client_count = 0 /\ position_culled(game, TheFlight.from_cp))
    /\ \E offset \in SpawnOffsets :
        LET r == generate_planned_flight(m, game.theater, game.settings,
                                         TheFlight.from_cp, TheFlight, offset)
        IN  /\ m' = r.mission
            /\ game' = [game EXCEPT !.theater = r.theater]
            /\ ato' = [ato EXCEPT ![cur.p].flights[cur.f] = r.flight]
            /\ exc' = r.exc
            /\ pc' = IF r.exc # "" THEN "raised" ELSE "setup"
    /\ UNCHANGED <<timing, dynamic_runways, flights, cur, api_vars>>

\* self.setup_flight_group(group, flight, timing, dynamic_runways)
SetupFlightGroup ==
    /\ pc = "setup"
    /\ LET r == setup_flight_group(m, flights, game.theater, dynamic_runways,
                                   Get(TheFlight.group), TheFlight, Get(timing))
       IN  /\ m' = r.mission
           /\ flights' = r.flights
           /\ ato' = [ato EXCEPT ![cur.p].flights[cur.f] = r.flight]
           /\ exc' = r.exc
           /\ pc' = IF r.exc # "" THEN "raised" ELSE "trigger"
    /\ UNCHANGED <<timing, dynamic_runways, game, cur, api_vars>>

\* self.setup_group_activation_trigger(flight, group)
SetupGroupActivationTrigger ==
    /\ pc = "trigger"
    /\ m' = setup_group_activation_trigger(m, game.theater, TheFlight,
                                           Get(TheFlight.group))
    /\ pc' = "flight"
    /\ cur' = [cur EXCEPT !.f = @ + 1]
    /\ UNCHANGED <<timing, exc, ato, dynamic_runways, game, flights, api_vars>>

GenNext ==
    \/ ClearParkingSlots
    \/ PackageTiming
    \/ Return
    \/ NextPackage
    \/ SkipCulled
    \/ GeneratePlannedFlight
    \/ SetupFlightGroup
    \/ SetupGroupActivationTrigger

SpecGen == GenInit /\ [][GenNext]_vars

-----------------------------------------------------------------------------
(* Rebuild specification: generate_flights is run again and again, each    *)
(* time by a new generator on a new mission, on one package of two flights *)
(* whose primary task and client count may be changed between two runs.    *)

MaxBuilds == 3

\* The flight that is built again: its join point is for players only, and
\* its plan has a race track and a CAS ingress.
RebuiltFlight(client_count) ==
    Flight("CAS", "A-10C", 2, client_count, "Warm", 0, "Home",
           <<Waypoint("TAKEOFF", HomePos),
             [Waypoint("JOIN", GenWaypoints.join) EXCEPT
                 !.only_for_player = TRUE],
             Waypoint("PATROL_TRACK", Point(-20000, 0)),
             Waypoint("INGRESS_CAS", GenWaypoints.ingress),
             Waypoint("TARGET_POINT", TargetPos),
             Waypoint("EGRESS", GenWaypoints.egress),
             Waypoint("LANDING_POINT", HomePos)>>)

RebuildInit ==
    /\ pkg = NoPackage
    /\ timing = None
    /\ ret = [op |-> "generate_flights", args |-> <<>>, value |-> Some(<<>>)]
    /\ exc = ""
    /\ fdata = NoFlightData
    /\ air_support = NoAirSupport
    /\ allocator = NoAllocator
    /\ \E task \in {"STRIKE", "BARCAP"}, clients \in {0, 1} :
           ato = <<[time_over_target |-> Some(GenTimeOverTarget),
                    waypoints |-> Some(GenWaypoints),
                    target |-> [position |-> TargetPos],
                    primary_task |-> task,
                    flights |-> <<RebuiltFlight(clients),
                                  StrikeRoster[3]>>]>>
    /\ game = [settings |-> Settings(FALSE, FALSE), theater |-> Theater]
    /\ m = Mission({"SAM"})
    /\ dynamic_runways = <<>>
    /\ flights = <<>>
    /\ pc = "start"
    /\ cur = [p |-> 1, f |-> 1]

\* The time-over-target values of the waypoints of a flight plan.
Tots(flight) ==
    [i \in 1..Len(flight.flight_plan.waypoints) |->
        flight.flight_plan.waypoints[i].tot]

\* generate_flights has returned.  The primary task, the client count and
\* the tot values it left are added to the history of the builds; the
\* package is given a primary task and the flight a client count, the same
\* or another; a new generator is constructed on a new mission.
Regenerate ==
    /\ pc = "done"
    /\ Len(Get(ret.value)) < MaxBuilds
    /\ ret' = [ret EXCEPT !.value = Some(Append(Get(@),
                  [primary_task |-> ato[1].primary_task,
                   client_count |-> ato[1].flights[1].client_count,
                   tots |-> Tots(ato[1].flights[1])]))]
    /\ \E task \in {"STRIKE", "BARCAP"}, clients \in {0, 1} :
           ato' = [ato EXCEPT ![1].primary_task = task,
                              ![1].flights[1].client_count = clients]
    /\ m' = Mission({"SAM"})
    /\ flights' = <<>>
    /\ timing' = None
    /\ pc' = "start"
    /\ cur' = [p |-> 1, f |-> 1]
    /\ UNCHANGED <<pkg, exc, fdata, air_support, allocator, dynamic_runways,
                   game>>

RebuildNext ==
    \/ ClearParkingSlots
    \/ PackageTiming
    \/ Return
    \/ NextPackage
    \/ SkipCulled
    \/ GeneratePlannedFlight
    \/ SetupFlightGroup
    \/ SetupGroupActivationTrigger
    \/ Regenerate

SpecRebuild == RebuildInit /\ [][RebuildNext]_vars

-----------------------------------------------------------------------------
(* Strike specification: generate_flights on a package of an escort        *)
(* flight without client from the culled base and a strike flight, with    *)
(* or without client and departure delay, from the home base or from the   *)
(* culled base, whose ingress waypoint has up to MaxTargets targets.  The  *)
(* order is that package alone, or followed by a package without flights,  *)
(* or followed by a package without flights and by the package again.      *)

MaxTargets == 2

StrikeAirframes == {"B-17G", "F-16C_50", "JF-17", "F-14B", "AJS37"}

TargetPositions == {Point(0, 0), Point(40, 20), Point(-30, 11)}

\* The target lists of the ingress waypoint.
TargetLists ==
    UNION {[1..n -> {[position |-> q] : q \in TargetPositions}] :
               n \in 0..MaxTargets}

StrikeFlight(unit_type, targets, client_count, scheduled_in, from_cp) ==
    Flight("STRIKE", unit_type, 2, client_count, "Warm", scheduled_in, from_cp,
           <<Waypoint("TAKEOFF", HomePos),
             [Waypoint("INGRESS_STRIKE", GenWaypoints.ingress) EXCEPT
                 !.targets = targets],
             Waypoint("LANDING_POINT", HomePos)>>)

StrikeInit ==
    /\ pkg = NoPackage
    /\ timing = None
    /\ ret = NoCall
    /\ exc = ""
    /\ fdata = NoFlightData
    /\ air_support = NoAirSupport
    /\ allocator = NoAllocator
    /\ \E unit_type \in StrikeAirframes, targets \in TargetLists,
          client_count \in {0, 1}, scheduled_in \in {0, 5},
          from_cp \in {"Home", "Far"} :
           LET package == [time_over_target |-> Some(GenTimeOverTarget),
                           waypoints |-> Some(GenWaypoints),
                           target |-> [position |-> TargetPos],
                           primary_task |-> "STRIKE",
                           flights |-> <<StrikeRoster[3],
                                         StrikeFlight(unit_type, targets,
                                                      client_count,
                                                      scheduled_in, from_cp)>>]
               empty == [package EXCEPT !.flights = <<>>]
           IN  ato \in {<<package>>, <<package, empty>>,
                        <<package, empty, package>>}
    /\ game = [settings |-> Settings(FALSE, FALSE), theater |-> Theater]
    /\ m = Mission({"SAM"})
    /\ dynamic_runways = <<>>
    /\ flights = <<>>
    /\ pc = "start"
    /\ cur = [p |-> 1, f |-> 1]

SpecStrike == StrikeInit /\ [][GenNext]_vars

-----------------------------------------------------------------------------
(* Properties of the timing specification.                                 *)

\* The nautical miles between two points, as travel_time reads them.
NmBetween(a, b) == meter_to_nm(distance_to_point(a, b))

\* secs is the whole number of seconds in nm / speed * 3600 * 1.1, that is
\* secs <= nm / speed * 360 * 11 < secs + 1.
IsTruncatedLegTime(secs, nm, speed) ==
    /\ secs * nm[2] * speed <= nm[1] * 360 * 11
    /\ nm[1] * 360 * 11 < (secs + 1) * nm[2] * speed

\* nm / speed * 3600 * 1.1 rounded to the nearest whole second.
RoundedLegTime(nm, speed) ==
    round(RMul(RMul(RDiv(nm, FromInt(speed)), FromInt(3600)), Rat(11, 10)))

\* C1: for a package with time_over_target T and waypoints set, for_package
\* returns ingress = T - travel_time(ingress, target), join = ingress -
\* travel_time(join, ingress), egress = T + travel_time(target, egress) and
\* split = egress + travel_time(egress, split), all at the package ground
\* speed; T = 3600 with leg times 300, 200, 150, 100 gives ingress 3400,
\* join 3100, egress 3750, split 3850.
C1_ForPackageAnchors ==
    ~IsNone(timing) =>
        LET t == Get(timing)
            T == Get(pkg.time_over_target)
            w == Get(pkg.waypoints)
            S == Get(package_ground_speed(pkg).value)
            ji == travel_time(w.join, w.ingress, S)
            it == travel_time(w.ingress, pkg.target.position, S)
            te == travel_time(pkg.target.position, w.egress, S)
            es == travel_time(w.egress, w.split, S)
        IN  /\ S = 400
            /\ t.ingress = T - it
            /\ t.join = t.ingress - ji
            /\ t.egress = T + te
            /\ t.split = t.egress + es
            /\ t.join = T - it - ji
            /\ t.split = T + te + es
            /\ (T = 3600 /\ <<ji, it, te, es>> = <<300, 200, 150, 100>>) =>
                   <<t.ingress, t.join, t.egress, t.split>>
                       = <<3400, 3100, 3750, 3850>>

\* The scenario of C1 has been computed.
C1_Witness ==
    /\ ~IsNone(timing)
    /\ pkg.time_over_target = Some(3600)
    /\ Get(pkg.waypoints).join = Point(-93537, 0)
    /\ Get(pkg.waypoints).ingress = Point(-37415, 0)
    /\ Get(pkg.waypoints).egress = Point(0, 28061)
    /\ Get(timing).join = 3100
    /\ Get(timing).split = 3850

\* C2: travel_time(a, b, speed) is the distance from a to b in nautical
\* miles, divided by the speed in knots, times 3600, times 1.1, truncated to
\* whole seconds.
C2_TravelTimeTruncates ==
    ret.op = "travel_time" =>
        IsTruncatedLegTime(Get(ret.value),
                           NmBetween(ret.args[1], ret.args[2]), ret.args[3])

\* One nautical mile at 400 knots takes 9.9 s, returned as 9.
C2_Witness ==
    /\ ret.op = "travel_time"
    /\ ret.args = <<TargetPos, Point(1852, 0), 400>>
    /\ ret.value = Some(9)

\* C3 as stated: each leg time that for_package adds or subtracts is
\* round(d / s * 3600 * 1.1), the nearest whole second.
C3_LegTimesRounded ==
    ~IsNone(timing) =>
        LET t == Get(timing)
            T == Get(pkg.time_over_target)
            w == Get(pkg.waypoints)
        IN  /\ T - t.ingress
                 = RoundedLegTime(NmBetween(w.ingress, pkg.target.position), 400)
            /\ t.ingress - t.join
                 = RoundedLegTime(NmBetween(w.join, w.ingress), 400)
            /\ t.egress - T
                 = RoundedLegTime(NmBetween(pkg.target.position, w.egress), 400)
            /\ t.split - t.egress
                 = RoundedLegTime(NmBetween(w.egress, w.split), 400)

\* C3 amended: each leg time that for_package adds or subtracts is
\* d / s * 3600 * 1.1 truncated to whole seconds.
C3_LegTimesTruncated ==
    ~IsNone(timing) =>
        LET t == Get(timing)
            T == Get(pkg.time_over_target)
            w == Get(pkg.waypoints)
        IN  /\ IsTruncatedLegTime(T - t.ingress,
                   NmBetween(w.ingress, pkg.target.position), 400)
            /\ IsTruncatedLegTime(t.ingress - t.join,
                   NmBetween(w.join, w.ingress), 400)
            /\ IsTruncatedLegTime(t.egress - T,
                   NmBetween(pkg.target.position, w.egress), 400)
            /\ IsTruncatedLegTime(t.split - t.egress,
                   NmBetween(w.egress, w.split), 400)

\* A 5 nm ingress leg (49.5 s) and a 1 nm egress leg (9.9 s) were timed as
\* 49 s and 9 s.
C3_Witness ==
    /\ ~IsNone(timing)
    /\ Get(pkg.waypoints).ingress = Point(-9260, 0)
    /\ Get(pkg.waypoints).egress = Point(1852, 0)
    /\ Get(pkg.time_over_target) - Get(timing).ingress = 49
    /\ Get(timing).egress - Get(pkg.time_over_target) = 9

\* C4: the race-track window is (None, time_over_target + 1800) when the
\* primary task is CAP or BARCAP, and (ingress, egress) otherwise.
C4_RaceTrackWindow ==
    ret.op = "race_track" =>
        IF pkg.primary_task = "CAP" \/ pkg.primary_task = "BARCAP"
        THEN ret.value = Some(<<None, Get(pkg.time_over_target) + 1800>>)
        ELSE ret.value = Some(<<Some(Get(timing).ingress), Get(timing).egress>>)

\* The window of a BARCAP package and of a TARCAP package has been read.
C4_Witness ==
    /\ ret.op = "race_track"
    /\ pkg.primary_task = "BARCAP"
    /\ pkg.time_over_target = Some(3600)
    /\ ret.value = Some(<<None, 5400>>)

\* C5: tot_for_waypoint returns join for JOIN, ingress for every INGRESS_*
\* type, the time-over-target for every TARGET_* type, egress for EGRESS,
\* split for SPLIT, race_track_start for PATROL_TRACK, None otherwise.
C5_TotForWaypoint ==
    ret.op = "tot_for_waypoint" =>
        LET t == Get(timing)
            ty == ret.args[1].waypoint_type
            tot == Get(ret.value)
            cap == pkg.primary_task \in {"CAP", "BARCAP"}
        IN  /\ ty = "JOIN" => tot = Some(t.join)
            /\ ty \in {"INGRESS_CAS", "INGRESS_SEAD", "INGRESS_STRIKE"} =>
                   tot = Some(t.ingress)
            /\ ty \in {"TARGET_POINT", "TARGET_SHIP", "TARGET_GROUP_LOC"} =>
                   tot = pkg.time_over_target
            /\ ty = "EGRESS" => tot = Some(t.egress)
            /\ ty = "SPLIT" => tot = Some(t.split)
            /\ ty = "PATROL_TRACK" =>
                   tot = (IF cap THEN None ELSE Some(t.ingress))
            /\ ty \in {"TAKEOFF", "NAV", "PATROL", "CAS", "LANDING_POINT",
                        "CUSTOM", "LOITER"} => tot = None

\* The time of an INGRESS_CAS waypoint has been asked for.
C5_Witness ==
    /\ ret.op = "tot_for_waypoint"
    /\ ret.args[1].waypoint_type = "INGRESS_CAS"
    /\ ret.value = Some(Some(Get(timing).ingress))

\* C25: the times for_package returned are in the order join <= ingress <=
\* time_over_target <= egress <= split, and the race track of a package
\* whose primary task is neither BARCAP nor CAP starts no later than it
\* ends.
C25_AnchorsInOrder ==
    /\ ~IsNone(timing) =>
        LET t == Get(timing)
            T == Get(pkg.time_over_target)
        IN  /\ t.join <= t.ingress
            /\ t.ingress <= T
            /\ T <= t.egress
            /\ t.egress <= t.split
            /\ pkg.primary_task \notin {"BARCAP", "CAP"} =>
                   /\ ~IsNone(race_track_start(t))
                   /\ Get(race_track_start(t)) <= race_track_end(t)
    /\ (ret.op = "race_track" /\ pkg.primary_task \notin {"BARCAP", "CAP"}) =>
           /\ ~IsNone(Get(ret.value)[1])
           /\ Get(Get(ret.value)[1]) <= Get(ret.value)[2]

\* The race track of a strike package has been asked for: it starts before
\* it ends, and the join point of the package lies on its ingress point,
\* so that the join time is the ingress time.
C25_Witness ==
    /\ ~IsNone(timing)
    /\ ret.op = "race_track"
    /\ pkg.primary_task = "STRIKE"
    /\ Get(Get(ret.value)[1]) < Get(ret.value)[2]
    /\ Get(timing).join = Get(timing).ingress
    /\ Get(timing).ingress < Get(pkg.time_over_target)

-----------------------------------------------------------------------------
(* Properties of the radio and channel specifications.                     *)

AllocatorRan == ret.op = "assign_channels_for_flight"

C9_NoSharedChannel ==
    AllocatorRan =>
        \A f1 \in DOMAIN fdata.frequency_to_channel_map :
            \A f2 \in DOMAIN fdata.frequency_to_channel_map :
                f1 # f2 => fdata.frequency_to_channel_map[f1]
                               # fdata.frequency_to_channel_map[f2]

\* The generic allocator with shared presets has bound the intra-flight
\* frequency and two more frequencies on one radio.
C9_Witness ==
    /\ AllocatorRan
    /\ allocator.kind = "Common"
    /\ allocator.intra_flight_radio_index = allocator.inter_flight_radio_index
    /\ Cardinality(DOMAIN fdata.frequency_to_channel_map) = 3
    /\ \A f \in DOMAIN fdata.frequency_to_channel_map :
           fdata.frequency_to_channel_map[f].radio_id
               = Get(allocator.intra_flight_radio_index)

\* The (radio, channel) pair of the first call of calls made with frequency.
FirstCallWith(calls, frequency) ==
    LET at == {i \in 1..Len(calls) : calls[i][3] = frequency}
    IN  IF at = {} THEN None
        ELSE LET i == CHOOSE i \in at : \A j \in at : i <= j
             IN  Some(ChannelAssignment(calls[i][1], calls[i][2]))

\* C10: for any sequence of assign_channel calls on one FlightData,
\* channel_for(frequency) is the pair of the first call made with that
\* frequency, and what channel_for returned is that pair.
C10_FirstAssignmentWins ==
    /\ \A f \in CalledFrequencies :
           channel_for(fdata, f) = FirstCallWith(fdata.calls, f)
    /\ ret.op = "channel_for" =>
           Get(ret.value) = FirstCallWith(fdata.calls, ret.args[1])

\* A frequency was assigned twice, to different pairs, and channel_for
\* returned the first.
C10_Witness ==
    /\ ret.op = "channel_for"
    /\ ret.args = <<124>>
    /\ fdata.calls = <<(<<1, 1, 124>>), (<<2, 2, 124>>)>>
    /\ ret.value = Some(Some(ChannelAssignment(1, 1)))

\* The frequencies the generic allocator is to hand out for a flight, in
\* order: departure ATC, every AWACS, arrival ATC when the arrival differs
\* from the departure, every tanker, divert ATC.
InterFlightFrequencies(flight, support) ==
    (IF ~IsNone(flight.departure.atc)
     THEN <<Get(flight.departure.atc)>> ELSE <<>>)
    \o support.awacs
    \o (IF flight.arrival # flight.departure /\ ~IsNone(flight.arrival.atc)
        THEN <<Get(flight.arrival.atc)>> ELSE <<>>)
    \o support.tankers
    \o (IF ~IsNone(flight.divert) /\ ~IsNone(Get(flight.divert).atc)
        THEN <<Get(Get(flight.divert).atc)>> ELSE <<>>)

\* The preset channels left for them on the inter-flight radio: none for a
\* flight without client unit, whose channel count cannot be read.
InterFlightRoom(self, flight) ==
    LET clients == {i \in 1..Len(flight.units) : flight.units[i].human}
        first == CHOOSE i \in clients : \A j \in clients : i <= j
        channels == flight.units[first].radio_channels[
                        Get(self.inter_flight_radio_index)]
        taken == IF self.intra_flight_radio_index
                        = self.inter_flight_radio_index THEN 1 ELSE 0
    IN  IF clients = {} \/ channels < taken THEN 0 ELSE channels - taken

\* C11: the assign_channel calls of the generic allocator are, in order:
\* the intra-flight frequency on channel 1 of the intra-flight radio (when
\* there is one), then, on the inter-flight radio (when there is one),
\* consecutive channels starting at 2 if both radio indices are equal and at
\* 1 otherwise, for departure ATC, each AWACS, arrival ATC (if the arrival
\* differs from the departure and has ATC), each tanker and divert ATC, as
\* many of them as the radio has room for.
C11_GenericAllocationOrder ==
    (AllocatorRan /\ allocator.kind = "Common") =>
        LET intra == allocator.intra_flight_radio_index
            inter == allocator.inter_flight_radio_index
            freqs == InterFlightFrequencies(fdata, air_support)
            start == IF intra = inter THEN 2 ELSE 1
            room == IF IsNone(inter) THEN 0
                    ELSE InterFlightRoom(allocator, fdata)
            n == IF Len(freqs) <= room THEN Len(freqs) ELSE room
        IN  fdata.calls =
                (IF ~IsNone(intra)
                 THEN <<(<<Get(intra), 1, fdata.intra_flight_channel>>)>>
                 ELSE <<>>)
                \o [k \in 1..n |-> <<Get(inter), start + k - 1, freqs[k]>>]

\* The generic allocator with the intra-flight radio 2 and the inter-flight
\* radio 1 has handed out channels 1 to 5 for departure ATC, the AWACS,
\* arrival ATC, the tanker and divert ATC.
C11_Witness ==
    /\ AllocatorRan
    /\ allocator.kind = "Common"
    /\ exc = ""
    /\ fdata.calls = <<(<<2, 1, 251>>), (<<1, 1, 124>>), (<<1, 2, 40>>),
                       (<<1, 3, 127>>), (<<1, 4, 40>>), (<<1, 5, 127>>)>>
    /\ fdata.arrival.atc = Some(127)
    /\ air_support.tankers = <<40>>

\* C12 as stated: when the inter-flight radio has fewer preset channels
\* than there are frequencies to hand out, the generic allocator returns
\* without raising, whichever allocation is the first that does not fit.
C12_ExhaustionIsSilent ==
    (/\ AllocatorRan
     /\ allocator.kind = "Common"
     /\ ~IsNone(allocator.inter_flight_radio_index)
     /\ client_units(fdata) # <<>>
     /\ InterFlightRoom(allocator, fdata)
            < Len(InterFlightFrequencies(fdata, air_support)))
    => exc = ""

\* The assign_channel calls the generic allocator made for inter-flight
\* frequencies: all but the first, which is for the intra-flight channel.
InterFlightCalls ==
    IF IsNone(allocator.intra_flight_radio_index) THEN fdata.calls
    ELSE Tail(fdata.calls)

\* C27: every inter-flight call of the generic allocator is on the
\* inter-flight radio, on a channel between the first channel (2 when both
\* radios share their presets, else 1) and the number of preset channels of
\* that radio; no two of them are on the same channel; and when the presets
\* are shared, channel 1 stays preset to the intra-flight frequency on
\* every client unit.
C27_InterFlightChannelsInRange ==
    (AllocatorRan /\ allocator.kind = "Common"
        /\ ~IsNone(allocator.inter_flight_radio_index)) =>
        LET inter == Get(allocator.inter_flight_radio_index)
            shared == allocator.intra_flight_radio_index
                          = allocator.inter_flight_radio_index
            first == IF shared THEN 2 ELSE 1
            calls == InterFlightCalls
        IN  /\ \A k \in 1..Len(calls) :
                   /\ calls[k][1] = inter
                   /\ calls[k][2] >= first
                   /\ calls[k][2] <=
                          client_units(fdata)[1].radio_channels[inter]
            /\ \A j \in 1..Len(calls) : \A k \in 1..Len(calls) :
                   j # k => calls[j][2] # calls[k][2]
            /\ shared =>
                   \A u \in 1..Len(fdata.units) :
                       fdata.units[u].human =>
                           /\ <<inter, 1>> \in DOMAIN fdata.units[u].presets
                           /\ fdata.units[u].presets[<<inter, 1>>]
                                  = fdata.intra_flight_channel

\* The generic allocator with shared presets has handed out every channel
\* of the radio but the first, and more frequencies were waiting.
C27_Witness ==
    /\ AllocatorRan
    /\ allocator.kind = "Common"
    /\ ~IsNone(allocator.inter_flight_radio_index)
    /\ allocator.intra_flight_radio_index = allocator.inter_flight_radio_index
    /\ Len(InterFlightCalls) >= 2
    /\ Len(InterFlightFrequencies(fdata, air_support)) > Len(InterFlightCalls)
    /\ InterFlightCalls[Len(InterFlightCalls)][2] =
           client_units(fdata)[1].radio_channels[
               Get(allocator.inter_flight_radio_index)]

-----------------------------------------------------------------------------
(* Properties of the generation specification.                             *)

\* The flights of the order, as <<package index, flight index>>.
PlannedFlights ==
    {<<p, f>> \in (1..Len(ato)) \X (1..(MaxGenFlights + 1)) :
        f <= Len(ato[p].flights)}

\* The flight has its group, and setup_flight_group has built its waypoints.
IsSetUp(flight) ==
    /\ ~IsNone(flight.group)
    /\ Len(m.groups[Get(flight.group)].points) > 1

\* C6: push_time(flight, hold_point) is the package join time minus
\* travel_time(hold_point, package join point, flight ground speed), and
\* every LOITER waypoint of a flight that has been set up stands in the
\* mission with exactly one task, a circular orbit at the waypoint's
\* altitude that stops at that push time.
C6_LoiterStopsAtPushTime ==
    \A p \in 1..Len(ato) :
        LET package == ato[p]
            self == Get(for_package(package).value)
        IN  \A f \in 1..Len(package.flights) :
            LET flight == package.flights[f]
                plan == flight.flight_plan.waypoints
            IN  IsSetUp(flight) =>
                \A w \in 2..Len(plan) :
                    plan[w].waypoint_type = "LOITER" =>
                    LET hold == Point(plan[w].x, plan[w].y)
                        pushed == self.join - travel_time(
                                      hold, Get(package.waypoints).join,
                                      flight_ground_speed(flight))
                        group == m.groups[Get(flight.group)]
                        task == <<OrbitUntil(plan[w].alt, "Circle", pushed)>>
                    IN  /\ push_time(self, flight, hold) = pushed
                        /\ \E i \in 2..Len(group.points) :
                               /\ group.points[i].name = plan[w].name
                               /\ group.points[i].position = hold
                        /\ \A i \in 2..Len(group.points) :
                               group.points[i].name = plan[w].name =>
                               group.points[i].tasks = task

\* A flight holding 9260 m before the join point has been set up: its loiter
\* stops at 3051 s, 49 s before the join time of 3100 s.
C6_Witness ==
    \E pf \in PlannedFlights :
        LET flight == ato[pf[1]].flights[pf[2]]
        IN  /\ IsSetUp(flight)
            /\ \E i \in 2..Len(m.groups[Get(flight.group)].points) :
                LET point == m.groups[Get(flight.group)].points[i]
                IN  /\ point.name = "LOITER"
                    /\ point.position = FarHold
                    /\ point.tasks = <<OrbitUntil(6000, "Circle", 3051)>>

\* The package has no time-over-target or no waypoints.
Unset(package) ==
    IsNone(package.time_over_target) \/ IsNone(package.waypoints)

\* C7: once generate_flights has asked for the timing of a package whose
\* time-over-target or waypoints are unset, it has been left by an
\* AssertionError without a timing, it never goes on to a later package,
\* and no flight of that package or of a later one has a group: every
\* group and every FlightData of the mission comes from an earlier package.
C7_UnsetPackageStopsGeneration ==
    \A k \in 1..Len(ato) :
        Unset(ato[k]) =>
            /\ cur.p <= k
            /\ (cur.p = k /\ pc \notin {"start", "package"}) =>
                   (pc = "raised" /\ exc = "AssertionError" /\ IsNone(timing))
            /\ \A pf \in PlannedFlights :
                   pf[1] >= k => IsNone(ato[pf[1]].flights[pf[2]].group)
            /\ Len(m.groups) =
                   Cardinality({pf \in PlannedFlights :
                       pf[1] < k /\ ~IsNone(ato[pf[1]].flights[pf[2]].group)})
            /\ Len(flights) <= Len(m.groups)

\* The timing of the first package, whose time-over-target or waypoints
\* are unset, has been asked for; it and the planned package after it both
\* have flights that are not culled, and the mission has no group.
C7_Witness ==
    /\ Len(ato) = 2
    /\ Unset(ato[1]) /\ ~Unset(ato[2])
    /\ Len(ato[1].flights) > 0 /\ Len(ato[2].flights) > 0
    /\ cur.p = 1 /\ pc = "raised" /\ exc = "AssertionError"
    /\ IsNone(timing)
    /\ m.groups = <<>> /\ flights = <<>>

\* The placement generate_planned_flight tries for the flight raises: the
\* flight is to start from a carrier whose group the mission does not hold,
\* or from the parking of an airbase that has too few free slots.
PlacementRaises(flight) ==
    LET cp == game.theater[flight.from_cp]
        start == IF flight.client_count = 0
                    /\ game.settings.perf_ai_parking_start
                 THEN "Cold" ELSE flight.start_type
    IN  /\ start # "In Flight"
        /\ IF cp.cptype \in {"AIRCRAFT_CARRIER_GROUP", "LHA_GROUP"}
           THEN cp.carrier_group_name \notin DOMAIN m.named_groups
           ELSE /\ start \in {"Cold", "Warm"}
                /\ flight.count > cp.parking_slots - cp.occupied

\* C13: a generate_planned_flight call whose placement raises returns
\* without exception, leaves the flight with start_type "In Flight" and
\* with a new group of the mission as its group, and that group's first
\* point lies 100 to 1000 m east and north of the departure control point,
\* 1500 m above the ground.
C13_PlacementFallback ==
    [][(pc = "flight" /\ pc' \in {"setup", "raised"}
          /\ PlacementRaises(TheFlight)) =>
       LET gid == Len(m.groups) + 1
           at == game.theater[TheFlight.from_cp].position
       IN  /\ pc' = "setup" /\ exc' = ""
           /\ TheFlight'.start_type = "In Flight"
           /\ TheFlight'.group = Some(gid)
           /\ Len(m'.groups) = gid
           /\ m'.groups[gid].id = gid
           /\ Len(m'.groups[gid].units) = TheFlight.count
           /\ LET first == m'.groups[gid].points[1]
              IN  /\ first.position.x - at.x \in 100..1000
                  /\ first.position.y - at.y \in 100..1000
                  /\ first.alt = 1500
                  /\ first.alt_type = "RADIO"]_vars

\* A flight planned to start cold from the home base, whose parking is
\* full, has an airborne group at 1500 m and the start type "In Flight".
C13_Witness ==
    \E pf \in PlannedFlights :
        LET flight == ato[pf[1]].flights[pf[2]]
        IN  /\ flight.from_cp = "Home"
            /\ game.theater["Home"].occupied = game.theater["Home"].parking_slots
            /\ flight.start_type = "In Flight"
            /\ ~IsNone(flight.group)
            /\ m.groups[Get(flight.group)].points[1].alt = 1500
            /\ m.groups[Get(flight.group)].points[1].alt_type = "RADIO"
            /\ pc = "setup" /\ cur = [p |-> pf[1], f |-> pf[2]]

\* The flight types setup_flight_group has a configuration for.
MappedFlightTypes ==
    {"CAP", "BARCAP", "TARCAP", "INTERCEPTION", "CAS", "BAI", "SEAD", "DEAD",
     "STRIKE", "ANTISHIP", "ESCORT"}

\* setup_flight_group has been called for the flight the loops stand at.
FlightGroupWasSetUp ==
    /\ pc \in {"trigger", "raised"}
    /\ cur.p <= Len(ato) /\ AtFlight
    /\ ~IsNone(TheFlight.group)

\* C14 as stated: setup_flight_group called for a flight of a type that is
\* not mapped has returned without raising, also for the first flight
\* generated, and the first point of the group carries the neutral profile.
C14_UnknownTypeCompletes ==
    (FlightGroupWasSetUp /\ TheFlight.flight_type \notin MappedFlightTypes) =>
        /\ pc = "trigger" /\ exc = ""
        /\ m.groups[Get(TheFlight.group)].points[1].tasks =
               <<[id |-> "OptRTBOnBingoFuel", value |-> TRUE],
                 [id |-> "OptRestrictAfterburner", value |-> TRUE]>>

\* The waypoints of the flight plan that setup_flight_group builds: all but
\* the first, and but those for players only when the flight has no client.
BuiltWaypoints(flight) ==
    {w \in 2..Len(flight.flight_plan.waypoints) :
        ~(flight.flight_plan.waypoints[w].only_for_player
          /\ flight.client_count = 0)}

\* The mission point built for the w-th waypoint of the plan of a flight
\* that has been set up: the group's first point is its spawn point.
MissionPoint(flight, w) ==
    m.groups[Get(flight.group)].points[
        1 + Cardinality({v \in BuiltWaypoints(flight) : v <= w})]

\* The target group of the waypoint is no ground object, or the mission
\* holds no group of its name.
Unresolved(waypoint) ==
    \/ IsNone(waypoint.targetGroup)
    \/ Get(waypoint.targetGroup).class # "TheaterGroundObject"
    \/ Get(waypoint.targetGroup).group_identifier \notin DOMAIN m.named_groups

UnresolvedSeadIngress(flight) ==
    {w \in BuiltWaypoints(flight) :
        /\ flight.flight_plan.waypoints[w].waypoint_type = "INGRESS_SEAD"
        /\ Unresolved(flight.flight_plan.waypoints[w])}

\* C15: a flight with a SEAD ingress waypoint whose target group is not
\* resolved is set up without exception; that waypoint stands in the
\* mission without task, with the ingress time as its locked ETA and as
\* the flight waypoint's tot, and every waypoint of the plan is built.
C15_UnresolvedSeadTarget ==
    /\ (FlightGroupWasSetUp /\ UnresolvedSeadIngress(TheFlight) # {}) =>
           (pc = "trigger" /\ exc = "")
    /\ \A pf \in PlannedFlights :
        LET package == ato[pf[1]]
            flight == package.flights[pf[2]]
            plan == flight.flight_plan.waypoints
            unresolved == IF IsSetUp(flight)
                          THEN UnresolvedSeadIngress(flight) ELSE {}
        IN  unresolved # {} =>
            LET ingress == Get(for_package(package).value).ingress
            IN  /\ Len(m.groups[Get(flight.group)].points)
                       = 1 + Cardinality(BuiltWaypoints(flight))
                /\ \A w \in BuiltWaypoints(flight) :
                       MissionPoint(flight, w).name = plan[w].name
                /\ \A w \in unresolved :
                       /\ MissionPoint(flight, w).tasks = <<>>
                       /\ MissionPoint(flight, w).ETA = ingress
                       /\ MissionPoint(flight, w).ETA_locked
                       /\ plan[w].tot = Some(ingress)

\* A SEAD flight sent against a control point, which is no ground object,
\* has been set up in a mission that holds the SAM site's group: its ingress
\* waypoint has no task and the landing point after it is built.
C15_Witness ==
    \E pf \in PlannedFlights :
        LET flight == ato[pf[1]].flights[pf[2]]
        IN  /\ IsSetUp(flight)
            /\ "SAM" \in DOMAIN m.named_groups
            /\ UnresolvedSeadIngress(flight) = {4}
            /\ MissionPoint(flight, 4).tasks = <<>>
            /\ MissionPoint(flight, 4).ETA = 3400
            /\ MissionPoint(flight, 9).type = "Land"

\* The waypoint types whose builder stamps a time-over-target whatever the
\* package: join, SEAD and strike ingress, target, egress, split.
StampedTypes ==
    {"JOIN", "INGRESS_SEAD", "INGRESS_STRIKE", "TARGET_POINT", "TARGET_SHIP",
     "TARGET_GROUP_LOC", "EGRESS", "SPLIT"}

------------------------------------------------------------------------\* The anchor of the package timing that belongs to a waypoint type.
Anchor(self, package, waypoint_type) ==
    IF waypoint_type = "JOIN" THEN self.join
    ELSE IF waypoint_type = "SPLIT" THEN self.split
    ELSE IF waypoint_type = "EGRESS" THEN self.egress
    ELSE Get(package.time_over_target)

\* C18: every JOIN, SPLIT, EGRESS, TARGET_POINT, TARGET_SHIP and
\* TARGET_GROUP_LOC waypoint that has been built has the anchor of its type
\* (join, split, egress, time-over-target) as the flight waypoint's tot and
\* as the mission waypoint's ETA, with ETA_locked true and speed_locked
\* false.
C18_AnchorsStamped ==
    \A p \in 1..Len(ato) :
        LET package == ato[p]
            self == Get(for_package(package).value)
        IN  \A f \in 1..Len(package.flights) :
            LET flight == package.flights[f]
                plan == flight.flight_plan.waypoints
            IN  IsSetUp(flight) =>
                \A w \in BuiltWaypoints(flight) :
                    plan[w].waypoint_type \in
                        {"JOIN", "SPLIT", "EGRESS", "TARGET_POINT",
                         "TARGET_SHIP", "TARGET_GROUP_LOC"} =>
                    LET anchor == Anchor(self, package, plan[w].waypoint_type)
                        point == MissionPoint(flight, w)
                    IN  /\ plan[w].tot = Some(anchor)
                        /\ point.name = plan[w].name
                        /\ point.ETA = anchor
                        /\ point.ETA_locked
                        /\ ~point.speed_locked

\* The strike flight has been set up: its join, target, egress and split
\* waypoints carry 3100, 3600, 3750 and 3850 s, locked.
C18_Witness ==
    \E pf \in PlannedFlights :
        LET flight == ato[pf[1]].flights[pf[2]]
            plan == flight.flight_plan.waypoints
        IN  /\ IsSetUp(flight)
            /\ flight.flight_type = "STRIKE"
            /\ <<plan[3].tot, plan[5].tot, plan[6].tot, plan[7].tot>>
                   = <<Some(3100), Some(3600), Some(3750), Some(3850)>>
            /\ MissionPoint(flight, 7).ETA = 3850
            /\ MissionPoint(flight, 7).ETA_locked
            /\ ~MissionPoint(flight, 7).speed_locked

-----
(* Properties of the rebuild specification.                                *)

Builds == Get(ret.value)

\* C17: any two builds of the flight plan made with the same primary task
\* and the same client count leave the same time-over-target on every
\* waypoint, whatever was built in between; so does the build that has
\* just ended.
C17_RebuildIsIdempotent ==
    /\ \A i \in 1..Len(Builds) : \A j \in 1..Len(Builds) :
        (/\ Builds[i].primary_task = Builds[j].primary_task
         /\ Builds[i].client_count = Builds[j].client_count)
        => Builds[i].tots = Builds[j].tots
    /\ pc = "done" =>
        \A i \in 1..Len(Builds) :
            (/\ Builds[i].primary_task = ato[1].primary_task
             /\ Builds[i].client_count = ato[1].flights[1].client_count)
            => Builds[i].tots = Tots(ato[1].flights[1])

\* The plan was built for a patrol package without client, then for a
\* strike package, which stamped the race track, then for the patrol
\* package again: the first and the third build agree, and neither the
\* join point, which was not built, nor the race track has a time.
C17_Witness ==
    /\ Len(Builds) = 3
    /\ Builds[1].primary_task = "BARCAP" /\ Builds[1].client_count = 0
    /\ Builds[2].primary_task = "STRIKE" /\ Builds[2].client_count = 0
    /\ Builds[2].tots[3] = Some(3400)
    /\ Builds[3].primary_task = "BARCAP" /\ Builds[3].client_count = 0
    /\ Builds[3].tots = Builds[1].tots
    /\ Builds[3].tots[2] = None /\ Builds[3].tots[3] = None
    /\ Builds[3].tots[5] = Some(3600)

\* C19: every built waypoint of an INGRESS_* type (INGRESS_CAS,
\* INGRESS_SEAD, INGRESS_STRIKE) of a flight that has been set up carries
\* the ingress time of the package timing as its tot, which is what
\* tot_for_waypoint returns for it.
C19_IngressStamped ==
    \A pf \in PlannedFlights :
        LET package == ato[pf[1]]
            flight == package.flights[pf[2]]
            plan == flight.flight_plan.waypoints
            self == Get(for_package(package).value)
        IN  (/\ ~IsNone(flight.group)
             /\ Get(flight.group) \in DOMAIN m.groups
             /\ IsSetUp(flight)) =>
            \A w \in BuiltWaypoints(flight) :
                plan[w].waypoint_type \in
                    {"INGRESS_CAS", "INGRESS_SEAD", "INGRESS_STRIKE"} =>
                /\ tot_for_waypoint(self, plan[w]) = Some(self.ingress)
                /\ plan[w].tot = Some(self.ingress)

\* The flights setup_group_activation_trigger has been called for.
Triggered ==
    {pf \in PlannedFlights :
        /\ ~IsNone(ato[pf[1]].flights[pf[2]].group)
        /\ \/ pf[1] < cur.p
           \/ pf[1] = cur.p /\ pf[2] < cur.f}

\* The triggers of the mission that act on the group.
TriggersOf(gid) ==
    {i \in 1..Len(m.triggers) : m.triggers[i].group = gid}

HasCondition(trigger, id) ==
    \E i \in 1..Len(trigger.conditions) : trigger.conditions[i].id = id

\* The action of the trigger that starts or activates the group, which
\* waits for it: a late-activated group is activated, an uncontrolled one
\* is pushed its start command.
StartsGroup(trigger, gid) ==
    LET group == m.groups[gid]
    IN  \E i \in 1..Len(trigger.actions) :
            LET action == trigger.actions[i]
            IN  \/ /\ action = [id |-> "ActivateGroup", group |-> gid]
                   /\ group.late_activation
                \/ /\ action.id = "AITaskPush"
                   /\ action.group = gid
                   /\ action.task \in 1..Len(group.trigger_actions)
                   /\ group.trigger_actions[action.task] = "StartCommand"
                   /\ group.uncontrolled
                   /\ ~group.late_activation

\* C20: an AI-only flight with a positive departure delay for which
\* setup_group_activation_trigger has run has exactly one trigger, a
\* once-only one; its conditions include TimeAfter(scheduled_in * 60),
\* include the ownership of the departure airfield by the flight's own side
\* exactly when the departure control point is an airbase, and for an
\* INTERCEPTION flight include the zone intrusion, with a message to all
\* among the actions; the action that starts or activates the group is
\* among the trigger's actions and the group waits for it.
C20_ActivationTrigger ==
    \A pf \in Triggered :
        LET flight == ato[pf[1]].flights[pf[2]]
            gid == Get(flight.group)
            cp == game.theater[flight.from_cp]
        IN  (flight.scheduled_in > 0 /\ flight.client_count = 0) =>
            /\ Cardinality(TriggersOf(gid)) = 1
            /\ \A i \in TriggersOf(gid) :
                   LET trigger == m.triggers[i]
                   IN  /\ trigger.id = "TriggerOnce"
                       /\ \E c \in 1..Len(trigger.conditions) :
                              trigger.conditions[c] =
                                  [id |-> "TimeAfter",
                                   seconds |-> flight.scheduled_in * 60]
                       /\ HasCondition(trigger, "CoalitionHasAirdrome")
                              <=> cp.cptype = "AIRBASE"
                       /\ \A c \in 1..Len(trigger.conditions) :
                              trigger.conditions[c].id = "CoalitionHasAirdrome"
                              => trigger.conditions[c] =
                                     [id |-> "CoalitionHasAirdrome",
                                      coalition |-> IF cp.captured
                                                    THEN "player" ELSE "enemy",
                                      airdrome |-> flight.from_cp]
                       /\ flight.flight_type = "INTERCEPTION" =>
                              /\ HasCondition(trigger, "PartOfCoalitionInZone")
                              /\ \E a \in 1..Len(trigger.actions) :
                                     trigger.actions[a].id = "MessageToAll"
                       /\ StartsGroup(trigger, gid)

\* An interceptor of the enemy base at the front has its trigger: the time,
\* the enemy's ownership of the base and the intrusion are its conditions.
C20_Witness ==
    \E pf \in Triggered :
        LET flight == ato[pf[1]].flights[pf[2]]
        IN  /\ flight.flight_type = "INTERCEPTION"
            /\ flight.scheduled_in > 0 /\ flight.client_count = 0
            /\ \E i \in TriggersOf(Get(flight.group)) :
                   /\ Len(m.triggers[i].conditions) = 3
                   /\ m.triggers[i].conditions[2].coalition = "enemy"
                   /\ Len(m.triggers[i].actions) = 2

HasAction(trigger, id) ==
    \E i \in 1..Len(trigger.actions) : trigger.actions[i].id = id

\* C21: a delayed AI-only flight whose trigger has been set up uses one of
\* two encodings.  If its start type is not "In Flight" and its departure
\* is no carrier or LHA group, its group is uncontrolled and not
\* late-activated, and its trigger pushes the group's start command and
\* activates no group; otherwise the group is late-activated and not
\* uncontrolled, and the trigger activates the group and pushes no task.
\* No group of the mission is both uncontrolled and late-activated.
C21_TwoEncodings ==
    /\ \A pf \in Triggered :
        LET flight == ato[pf[1]].flights[pf[2]]
            gid == Get(flight.group)
            group == m.groups[gid]
            cp == game.theater[flight.from_cp]
        IN  (flight.scheduled_in > 0 /\ flight.client_count = 0) =>
            \A i \in TriggersOf(gid) :
                LET trigger == m.triggers[i]
                IN  IF /\ flight.start_type # "In Flight"
                       /\ cp.cptype \notin
                              {"AIRCRAFT_CARRIER_GROUP", "LHA_GROUP"}
                    THEN /\ group.uncontrolled /\ ~group.late_activation
                         /\ \E a \in 1..Len(trigger.actions) :
                                /\ trigger.actions[a].id = "AITaskPush"
                                /\ trigger.actions[a].group = gid
                                /\ group.trigger_actions[
                                       trigger.actions[a].task] = "StartCommand"
                         /\ ~HasAction(trigger, "ActivateGroup")
                    ELSE /\ group.late_activation /\ ~group.uncontrolled
                         /\ \E a \in 1..Len(trigger.actions) :
                                trigger.actions[a] =
                                    [id |-> "ActivateGroup", group |-> gid]
                         /\ ~HasAction(trigger, "AITaskPush")
    /\ \A g \in 1..Len(m.groups) :
           ~(m.groups[g].uncontrolled /\ m.groups[g].late_activation)

\* Both encodings stand in one mission: an uncontrolled group that waits
\* for its start command and a late-activated group.
C21_Witness ==
    /\ \E pf \in Triggered :
           /\ ato[pf[1]].flights[pf[2]].scheduled_in > 0
           /\ m.groups[Get(ato[pf[1]].flights[pf[2]].group)].uncontrolled
           /\ m.groups[Get(ato[pf[1]].flights[pf[2]].group)].trigger_actions
                  = <<"StartCommand">>
    /\ \E pf \in Triggered :
           /\ ato[pf[1]].flights[pf[2]].scheduled_in > 0
           /\ m.groups[Get(ato[pf[1]].flights[pf[2]].group)].late_activation

\* The waypoint types of the builder table of for_waypoint.
BuilderTable ==
    {"EGRESS", "INGRESS_SEAD", "INGRESS_STRIKE", "JOIN", "LANDING_POINT",
     "LOITER", "PATROL_TRACK", "SPLIT", "TARGET_GROUP_LOC", "TARGET_POINT",
     "TARGET_SHIP"}

\* C22: every waypoint of a type absent from the builder table that has
\* been built stands in the mission as the point add_waypoint makes at the
\* flight waypoint's position and altitude, with its altitude type and
\* name and nothing else set: no locked ETA, no task; the flight waypoint
\* has no tot; and the group has one point for each built waypoint after
\* its spawn point.
C22_DefaultBuilder ==
    \A pf \in PlannedFlights :
        LET flight == ato[pf[1]].flights[pf[2]]
            plan == flight.flight_plan.waypoints
        IN  IsSetUp(flight) =>
            /\ Len(m.groups[Get(flight.group)].points)
                   = 1 + Cardinality(BuiltWaypoints(flight))
            /\ \A w \in BuiltWaypoints(flight) :
                   plan[w].waypoint_type \notin BuilderTable =>
                   /\ MissionPoint(flight, w) =
                          [MovingPoint(Point(plan[w].x, plan[w].y), plan[w].alt)
                           EXCEPT !.alt_type = plan[w].alt_type,
                                  !.name = plan[w].name]
                   /\ ~MissionPoint(flight, w).ETA_locked
                   /\ MissionPoint(flight, w).tasks = <<>>
                   /\ plan[w].tot = None

\* A patrol flight with a client has been set up: its PATROL waypoint and
\* its NAV waypoint, which is for players only, stand in the mission as
\* the default builder makes them.
C22_Witness ==
    \E pf \in PlannedFlights :
        LET flight == ato[pf[1]].flights[pf[2]]
            plan == flight.flight_plan.waypoints
        IN  /\ IsSetUp(flight)
            /\ \E w \in BuiltWaypoints(flight) :
                   /\ plan[w].waypoint_type = "PATROL"
                   /\ MissionPoint(flight, w).name = "PATROL"
                   /\ MissionPoint(flight, w).alt_type = "RADIO"
            /\ \E w \in BuiltWaypoints(flight) :
                   /\ plan[w].waypoint_type = "NAV"
                   /\ MissionPoint(flight, w).name = "NAV"

\* A step of generate_planned_flight.
PlannedFlightGenerated == pc = "flight" /\ pc' \in {"setup", "raised"}

\* C24, as claimed: generate_planned_flight leaves a flight without client
\* with the start type "Cold" whenever perf_ai_parking_start is on, and
\* leaves a flight with a client with the start type it had.
C24_ForcedColdStart ==
    [][PlannedFlightGenerated =>
       /\ (TheFlight.client_count = 0 /\ game.settings.perf_ai_parking_start)
              => TheFlight'.start_type = "Cold"
       /\ TheFlight.client_count > 0
              => TheFlight'.start_type = TheFlight.start_type]_vars

\* C24, amended: that holds of every call whose placement does not raise,
\* and the group is then created with that start type when it is placed
\* on the ground; a call whose placement raises leaves the flight with the
\* start type "In Flight", with or without client.
C24_ForcedColdStartUnlessFallback ==
    [][PlannedFlightGenerated =>
       IF PlacementRaises(TheFlight)
       THEN TheFlight'.start_type = "In Flight"
       ELSE /\ (TheFlight.client_count = 0
                  /\ game.settings.perf_ai_parking_start)
                  => /\ TheFlight'.start_type = "Cold"
                     /\ m'.groups[Get(TheFlight'.group)].start_type = "Cold"
            /\ TheFlight.client_count > 0
                  => TheFlight'.start_type = TheFlight.start_type]_vars

\* The interceptor, planned to start in flight, has been given a group that
\* starts cold on the ground, and a flight with a client that has a group
\* starts warm as planned.
C24_Witness ==
    /\ game.settings.perf_ai_parking_start
    /\ \E pf \in PlannedFlights :
           LET flight == ato[pf[1]].flights[pf[2]]
           IN  /\ flight.flight_type = "INTERCEPTION"
               /\ ~IsNone(flight.group)
               /\ flight.start_type = "Cold"
               /\ m.groups[Get(flight.group)].start_type = "Cold"
    /\ \E pf \in PlannedFlights :
           LET flight == ato[pf[1]].flights[pf[2]]
           IN  /\ flight.client_count > 0
               /\ ~IsNone(flight.group)
               /\ flight.start_type = "Warm"

\* C26: when generate_flights has returned, self.flights holds one
\* FlightData for each group of the mission, in the order of generation:
\* the FlightData of the flight with the g-th group is the g-th, has the
\* flight's type and the group's units, and its waypoints are the points
\* of that flight's plan.
C26_OneSnapshotPerFlight ==
    pc = "done" =>
        /\ Len(flights) = Len(m.groups)
        /\ \A pf \in PlannedFlights :
               LET flight == ato[pf[1]].flights[pf[2]]
               IN  ~IsNone(flight.group) =>
                   LET g == Get(flight.group)
                   IN  /\ g <= Len(flights)
                       /\ flights[g].flight_type = flight.flight_type
                       /\ flights[g].units = m.groups[g].units
                       /\ flights[g].waypoints = points(flight)

-----------------------------------------------------------------------------
(* Properties of the strike specification.                                 *)

\* C23: once the strike flight is set up, its ingress waypoint carries the
\* ingress time as tot and as locked ETA.  On every airframe but the B-17G
\* its tasks are one bombing task per target, on the target's position, in
\* the order of the targets; on the B-17G there is no task when there is no
\* target, and else exactly one task, an area bombing by the whole group
\* centred on the arithmetic mean of the target positions.
C23_StrikeIngressTasks ==
    LET flight == ato[1].flights[2]
        waypoint == flight.flight_plan.waypoints[2]
        targets == waypoint.targets
        n == Len(targets)
        ingress == Get(for_package(ato[1]).value).ingress
    IN  IsSetUp(flight) =>
        LET point == MissionPoint(flight, 2)
        IN  /\ waypoint.tot = Some(ingress)
            /\ point.ETA = ingress /\ point.ETA_locked
            /\ IF flight.unit_type # "B-17G"
               THEN point.tasks =
                        [i \in 1..n |->
                            [id |-> "Bombing", position |-> targets[i].position]]
               ELSE IF n = 0 THEN point.tasks = <<>>
               ELSE /\ Len(point.tasks) = 1
                    /\ point.tasks[1].id = "Bombing"
                    /\ "groupAttack" \in DOMAIN point.tasks[1]
                    /\ point.tasks[1].groupAttack
                    /\ \A c \in {"x", "y"} :
                           LET mean == point.tasks[1].position[c]
                           IN  mean[1] * n = SumOf(targets, c) * mean[2]

\* A B-17G flight with two targets whose mean is no whole number of
\* metres, (-15, 11/2), has been set up with its one area-bombing task.
C23_Witness ==
    LET flight == ato[1].flights[2]
    IN  /\ flight.unit_type = "B-17G"
        /\ IsSetUp(flight)
        /\ Len(flight.flight_plan.waypoints[2].targets) = 2
        /\ Len(MissionPoint(flight, 2).tasks) = 1
        /\ MissionPoint(flight, 2).tasks[1].position
               = [x |-> <<-15, 1>>, y |-> <<11, 2>>]

\* C28: a flight with a client, or without departure delay, for which
\* setup_group_activation_trigger has run has no trigger, and its group is
\* neither late-activated nor uncontrolled; the mission has no trigger but
\* those of the delayed flights without client; and no group with a player
\* or client unit is late-activated.
C28_NoTriggerWithoutDelay ==
    /\ \A pf \in Triggered :
        LET flight == ato[pf[1]].flights[pf[2]]
            gid == Get(flight.group)
        IN  (flight.client_count > 0 \/ flight.scheduled_in = 0) =>
            /\ TriggersOf(gid) = {}
            /\ ~m.groups[gid].late_activation
            /\ ~m.groups[gid].uncontrolled
            /\ m.groups[gid].trigger_actions = <<>>
    /\ Len(m.triggers) =
           Cardinality({pf \in Triggered :
               /\ ato[pf[1]].flights[pf[2]].client_count = 0
               /\ ato[pf[1]].flights[pf[2]].scheduled_in > 0})
    /\ \A g \in 1..Len(m.groups) :
           (\E u \in 1..Len(m.groups[g].units) : m.groups[g].units[u].human)
               => ~m.groups[g].late_activation

\* generate_flights has returned from a flight with a client and a
\* departure delay: the mission has no trigger.
C28_Witness ==
    /\ pc = "done"
    /\ ato[1].flights[2].client_count = 1
    /\ ato[1].flights[2].scheduled_in = 5
    /\ ~IsNone(ato[1].flights[2].group)
    /\ m.groups[Get(ato[1].flights[2].group)].units[1].human
    /\ m.triggers = <<>>

\* The flights the loop of generate_flights has gone past.
Passed ==
    {pf \in PlannedFlights :
        \/ pf[1] < cur.p
        \/ pf[1] = cur.p /\ pf[2] < cur.f}

\* The flight has no client and departs from a culled base.
CulledWithoutClient(flight) ==
    flight.client_count = 0 /\ game.theater[flight.from_cp].culled

Before(pf, qf) == pf[1] < qf[1] \/ (pf[1] = qf[1] /\ pf[2] < qf[2])

\* C29: a flight the loop has gone past has no group exactly when it has
\* no client and departs from a culled base, so that a flight with a client
\* always has its group and a skipped flight keeps no later flight from
\* being generated; a flight without client from a culled base never has a
\* group; the groups of the mission are those of the generated flights, in
\* the order of the tasking order; and every trigger and every FlightData
\* belongs to a generated flight.
C29_SkippedExactlyWhenCulled ==
    LET generated == {pf \in PlannedFlights :
                         ~IsNone(ato[pf[1]].flights[pf[2]].group)}
        gid(pf) == Get(ato[pf[1]].flights[pf[2]].group)
    IN  /\ \A pf \in Passed :
               pf \notin generated
                   <=> CulledWithoutClient(ato[pf[1]].flights[pf[2]])
        /\ \A pf \in generated :
               ~CulledWithoutClient(ato[pf[1]].flights[pf[2]])
        /\ {gid(pf) : pf \in generated} = 1..Len(m.groups)
        /\ \A pf, qf \in generated : Before(pf, qf) => gid(pf) < gid(qf)
        /\ Len(flights) <= Len(m.groups)
        /\ \A i \in 1..Len(m.triggers) :
               m.triggers[i].group \in {gid(pf) : pf \in generated}

\* generate_flights has returned: the escort flight without client from the
\* culled base was skipped, and the strike flight with a client from the
\* same base, after it, has the one group, FlightData and all.
C29_Witness ==
    /\ pc = "done"
    /\ IsNone(ato[1].flights[1].group)
    /\ CulledWithoutClient(ato[1].flights[1])
    /\ ato[1].flights[2].from_cp = "Far"
    /\ ato[1].flights[2].client_count = 1
    /\ ato[1].flights[2].group = Some(1)
    /\ Len(m.groups) = 1
    /\ Len(flights) = 1

\* The package has its time-over-target and its waypoints, and no flight.
Empty(package) == ~Unset(package) /\ package.flights = <<>>

\* C30: package_ground_speed and for_package raise ValueError on a package
\* that has time-over-target and waypoints but no flight; once
\* generate_flights has asked for the timing of such a package it has been
\* left by that ValueError without a timing, so that it never returns and
\* never goes on to a later package: no flight of a later package has a
\* group, and the groups of the mission are those of the earlier packages.
C30_EmptyPackageAbortsGeneration ==
    \A k \in 1..Len(ato) :
        Empty(ato[k]) =>
            /\ package_ground_speed(ato[k]) = Raised("ValueError")
            /\ for_package(ato[k]) = Raised("ValueError")
            /\ cur.p <= k
            /\ pc # "done"
            /\ (cur.p = k /\ pc \notin {"start", "package"}) =>
                   (pc = "raised" /\ exc = "ValueError" /\ IsNone(timing))
            /\ \A pf \in PlannedFlights :
                   pf[1] > k => IsNone(ato[pf[1]].flights[pf[2]].group)
            /\ Len(m.groups) =
                   Cardinality({pf \in PlannedFlights :
                       pf[1] < k /\ ~IsNone(ato[pf[1]].flights[pf[2]].group)})

\* The strike flight with a client of the first package has its group, the
\* timing of the second package, which has no flight, has been asked for,
\* and the same strike flight of the third package has no group.
C30_Witness ==
    /\ Len(ato) = 3
    /\ Empty(ato[2])
    /\ ato[3].flights[2].client_count = 1
    /\ cur.p = 2 /\ pc = "raised" /\ exc = "ValueError"
    /\ IsNone(timing)
    /\ ato[1].flights[2].group = Some(1)
    /\ IsNone(ato[3].flights[2].group)
    /\ Len(m.groups) = 1

====
